---- MODULE Spec2Model ----
(***************************************************************************)
(* State-machine model of the resilient fetch pipeline of mcp-fetch-node:  *)
(* the per-origin CircuitBreaker (services/circuit-breaker) and            *)
(* retryWithBackoff (utils/retry).                                         *)
(*                                                                         *)
(* Two specifications share the module.  SpecCB runs the circuit breaker   *)
(* under arbitrary interleavings of execute / getState / reset calls, of   *)
(* completions of the operations in flight and of clock ticks.  SpecRetry  *)
(* runs one retryWithBackoff call against an operation whose behaviour on  *)
(* each invocation is fixed in the initial state.                          *)
(***************************************************************************)
EXTENDS Integers, Sequences, FiniteSets, Bags, TLC

(***************************************************************************)
(* Bounds of the model.                                                    *)
(***************************************************************************)
MaxThreshold == 3     \* failureThreshold ranges over 1..MaxThreshold
MaxHalfOpen == 2      \* halfOpenMaxAttempts ranges over 1..MaxHalfOpen
CooldownTicks == 2    \* cooldownPeriod, in clock ticks
MaxTime == 4          \* the clock runs from 0 to MaxTime
MaxCalls == 5         \* operations invoked in one behaviour
MaxInflight == 2      \* operations in flight at once
MaxRetries == 2       \* maxRetries ranges over 0..MaxRetries
RandSteps == 2        \* Math.random() ranges over r / RandSteps, r in 0..RandSteps-1
MaxTasks == 3         \* operations submitted to the RequestManager
MaxConcurrency == 2   \* RequestManagerConfig.concurrency ranges over 1..MaxConcurrency
MaxFragments == 3     \* fragments in the message of a raw error
MaxStatus == 601      \* HTTP status codes range over 0..MaxStatus
MaxChunks == 2        \* chunks in a response body
MaxPiece == 3         \* characters in one chunk of a document cut at will
SmallChunkSize == 4   \* a chunkSize that documents of a few characters exceed
MaxDocLength == 60    \* characters in a document
DefaultChunkSize == 16384

VARIABLES
    callerUrls,   \* the URLs the callers of the breaker use
    cbConfig,     \* CircuitBreaker.config
    circuits,     \* CircuitBreaker.circuits: domain -> CircuitStats, or NoCircuit
    now,          \* Date.now()
    inflight,     \* bag of execute calls suspended at `await fn()`
    fnCalls,      \* how many times a supplied operation was invoked
    lastEvent,    \* what the most recent execute or reset call gave its caller
    obs,          \* per-domain observations of the calls made so far
    retryConfig,  \* retryWithBackoff: config
    script,       \* what fn does on its 1st, 2nd, ... invocation
    attempt,      \* retryWithBackoff: the loop variable
    rpc,          \* retryWithBackoff: where the call stands
    rCalls,       \* how many times retryWithBackoff invoked fn
    lastError,    \* retryWithBackoff: lastError
    rResult,      \* what retryWithBackoff returned or threw
    sleeps,       \* how many times sleep() was called
    onRetryCalls, \* how many times context.onRetry was called
    lastOnRetry,  \* the arguments of the latest onRetry call
    delay,        \* the delay of the latest sleep() call
    rmConfig,     \* the RequestManagerConfig given to the constructor
    queue,        \* RequestManager.queue
    taskState,    \* where each operation given to RequestManager.execute stands
    errArg,       \* the value given to classifyError, createHttpError or `new FetchError`
    urlArg,       \* the url argument ("" when absent)
    fetchErr,     \* the FetchError produced
    producedBy,   \* the function that produced it
    userMsg,      \* the result of fetchErr.toUserMessage()
    sfOptions,    \* streamFetch: url and options (signal, timeout)
    callerSignal, \* options.signal.aborted
    sf,           \* streamFetch: where the call and its body generator stand, and
                  \* the locals controller, abortHandler, timeoutId, cancelled
    transport,    \* global.fetch: calls made, and the body the server still sends
    reader,       \* the body reader: cancel() and releaseLock() calls
    sfSeen,       \* what the caller of streamFetch and the consumer of body saw
    mdIn,         \* htmlToMarkdownStream: the source, the options, the signal
    md,           \* htmlToMarkdownStream: buffer, outputQueue, stack, listStack,
                  \* skipDepth, lastChar
    mdOut,        \* what the consumer of htmlToMarkdownStream was given
    pu,           \* processURLStream: its arguments, the configuration, where
                  \* the call stands and what it gave its caller
    xs,           \* extractStream: the source, the signal, inRemovableTag, tagStack,
                  \* htmlChunks, the parser's open elements, what was yielded
    rmCaller      \* what the callers of the RequestManager did: whether the latest
                  \* step was pause(), clear() or another one, and whether
                  \* pause() was called with no start() since

cbVars == <<callerUrls, cbConfig, circuits, now, inflight, fnCalls, lastEvent, obs>>

retryVars == <<retryConfig, script, attempt, rpc, rCalls, lastError, rResult,
               sleeps, onRetryCalls, lastOnRetry, delay>>

rmVars == <<rmConfig, queue, taskState, rmCaller>>

errVars == <<errArg, urlArg, fetchErr, producedBy, userMsg>>

sfVars == <<sfOptions, callerSignal, sf, transport, reader, sfSeen>>

mdVars == <<mdIn, md, mdOut>>

puVars == <<pu>>

xsVars == <<xs>>

vars == <<cbVars, retryVars, rmVars, errVars, sfVars, mdVars, puVars, xsVars>>

\* What the actions of each component leave alone.
notCB == <<retryVars, rmVars, errVars, sfVars, mdVars, puVars, xsVars>>
notRetry == <<cbVars, rmVars, errVars, sfVars, mdVars, puVars, xsVars>>
notRM == <<cbVars, retryVars, errVars, sfVars, mdVars, puVars, xsVars>>
notErr == <<cbVars, retryVars, rmVars, sfVars, mdVars, puVars, xsVars>>
notSF == <<cbVars, retryVars, rmVars, errVars, mdVars, puVars, xsVars>>
notMD == <<cbVars, retryVars, rmVars, errVars, sfVars, puVars, xsVars>>
notPU == <<cbVars, retryVars, rmVars, errVars, mdVars, xsVars>>
notXS == <<cbVars, retryVars, rmVars, errVars, sfVars, mdVars, puVars>>

(***************************************************************************)
(* Error taxonomy (utils/errors).                                          *)
(***************************************************************************)
RETRYABLE == "RETRYABLE"
NON_RETRYABLE == "NON_RETRYABLE"

FetchError(code, type) == [isFetchError |-> TRUE, code |-> code, type |-> type]

\* A thrown value that is not a FetchError.
RawError == [isFetchError |-> FALSE, code |-> "raw", type |-> "raw"]

\* `error instanceof FetchError ? error : new FetchError('Unexpected error',
\*  FETCH_ERROR, RETRYABLE, {cause: error})`
wrapError(error) ==
    IF error.isFetchError THEN error ELSE FetchError("FETCH_ERROR", RETRYABLE)

(***************************************************************************)
(* CircuitBreaker                                                          *)
(***************************************************************************)
CLOSED == "CLOSED"
OPEN == "OPEN"
HALF_OPEN == "HALF_OPEN"

\* URLs handed to the breaker.
Urls == {"https://a.test/p1", "https://a.test/p2", "https://b.test/"}

\* Whether new URL(url) succeeds.
Parses(url) == url \in {"https://a.test/p1", "https://a.test/p2", "https://b.test/"}

\* new URL(url).hostname
hostname(url) ==
    CASE url = "https://a.test/p1" -> "a.test"
      [] url = "https://a.test/p2" -> "a.test"
      [] url = "https://b.test/" -> "b.test"

getDomain(url) == IF Parses(url) THEN hostname(url) ELSE url

Domains == {getDomain(url) : url \in Urls}

NoCircuit == [state |-> "absent"]

NewCircuit ==
    [state |-> CLOSED, failures |-> 0, lastFailureTime |-> 0,
     halfOpenAttempts |-> 0, successCount |-> 0]

getOrCreateCircuit(domain) ==
    IF circuits[domain] = NoCircuit THEN NewCircuit ELSE circuits[domain]

\* transitionState that does not restart the cooldown clock on entering OPEN.
transitionStateKeepsClock(circuit, newState) ==
    LET c == [circuit EXCEPT !.state = newState]
    IN  IF newState = OPEN
          THEN c
        ELSE IF newState = HALF_OPEN
          THEN [c EXCEPT !.halfOpenAttempts = 0, !.successCount = 0]
        ELSE [c EXCEPT !.failures = 0, !.successCount = 0, !.halfOpenAttempts = 0]

transitionState(circuit, newState) ==
    LET c == [circuit EXCEPT !.state = newState]
    IN  IF newState = OPEN
          THEN [c EXCEPT !.lastFailureTime = now]
        ELSE IF newState = HALF_OPEN
          THEN [c EXCEPT !.halfOpenAttempts = 0, !.successCount = 0]
        ELSE [c EXCEPT !.failures = 0, !.successCount = 0, !.halfOpenAttempts = 0]

\* checkAndUpdateState without the test `circuit.state === OPEN`.
checkAndUpdateStateFromAny(circuit) ==
    IF now - circuit.lastFailureTime >= cbConfig.cooldownPeriod
      THEN transitionState(circuit, HALF_OPEN)
      ELSE circuit

\* checkAndUpdateState leaving OPEN one tick before the cooldown is over.
checkAndUpdateStateEarly(circuit) ==
    IF /\ circuit.state = OPEN
       /\ now - circuit.lastFailureTime >= cbConfig.cooldownPeriod - 1
      THEN transitionState(circuit, HALF_OPEN)
      ELSE circuit

checkAndUpdateState(circuit) ==
    IF /\ circuit.state = OPEN
       /\ now - circuit.lastFailureTime >= cbConfig.cooldownPeriod
      THEN transitionState(circuit, HALF_OPEN)
      ELSE circuit

\* Rejects with the probe limit compared by > instead of >=.
RejectsOnePastLimit(circuit) ==
    \/ circuit.state = OPEN
    \/ /\ circuit.state = HALF_OPEN
       /\ circuit.halfOpenAttempts > cbConfig.halfOpenMaxAttempts

\* execute, lines 208-231: what the call does with the circuit it looked up
\* before it reaches `await fn()`.
Rejects(circuit) ==
    \/ circuit.state = OPEN
    \/ /\ circuit.state = HALF_OPEN
       /\ circuit.halfOpenAttempts >= cbConfig.halfOpenMaxAttempts

admit(circuit) ==
    IF circuit.state = HALF_OPEN
      THEN [circuit EXCEPT !.halfOpenAttempts = @ + 1]
      ELSE circuit

\* onSuccess leaving the failure counter alone outside HALF_OPEN.
onSuccessKeepsFailures(circuit) ==
    IF circuit.state = HALF_OPEN
      THEN LET c == [circuit EXCEPT !.successCount = @ + 1]
           IN  IF c.successCount >= 2 THEN transitionState(c, CLOSED) ELSE c
      ELSE circuit

\* onSuccess resetting the failure counter outside HALF_OPEN.
onSuccessResets(circuit) ==
    IF circuit.state = HALF_OPEN
      THEN LET c == [circuit EXCEPT !.successCount = @ + 1]
           IN  IF c.successCount >= 2 THEN transitionState(c, CLOSED) ELSE c
      ELSE [circuit EXCEPT !.failures = 0]

\* execute, lines 236-243: the operation resolved.
onSuccess(circuit) ==
    IF circuit.state = HALF_OPEN
      THEN LET c == [circuit EXCEPT !.successCount = @ + 1]
           IN  IF c.successCount >= 2 THEN transitionState(c, CLOSED) ELSE c
      ELSE [circuit EXCEPT !.failures = IF @ - 1 > 0 THEN @ - 1 ELSE 0]

\* onFailure counting every failure, whatever its type.
onFailureCountsAll(circuit, error) ==
    LET c == [circuit EXCEPT !.failures = @ + 1]
    IN  IF c.state = HALF_OPEN
          THEN transitionState(c, OPEN)
        ELSE IF c.failures >= cbConfig.failureThreshold
          THEN transitionState(c, OPEN)
        ELSE c

\* onFailure with the threshold compared by > instead of >=.
onFailureStrictThreshold(circuit, error) ==
    IF wrapError(error).type = RETRYABLE
      THEN LET c == [circuit EXCEPT !.failures = @ + 1]
           IN  IF c.state = HALF_OPEN
                 THEN transitionState(c, OPEN)
               ELSE IF c.failures > cbConfig.failureThreshold
                 THEN transitionState(c, OPEN)
               ELSE c
      ELSE circuit

\* execute, lines 247-271: the operation threw `error`.
onFailure(circuit, error) ==
    IF wrapError(error).type = RETRYABLE
      THEN LET c == [circuit EXCEPT !.failures = @ + 1]
           IN  IF c.state = HALF_OPEN
                 THEN transitionState(c, OPEN)
               ELSE IF c.failures >= cbConfig.failureThreshold
                 THEN transitionState(c, OPEN)
               ELSE c
      ELSE circuit

getState(url) ==
    IF circuits[getDomain(url)] = NoCircuit THEN CLOSED ELSE circuits[getDomain(url)].state

(***************************************************************************)
(* Observations.  obs[domain] records, for the circuit the map now holds   *)
(* for the domain, what a test harness counting calls would have seen:     *)
(*   streak     settled operations that failed with a RETRYABLE FetchError *)
(*              since the circuit was created or an operation succeeded    *)
(*   clean      every operation settled so far failed with a               *)
(*              NON_RETRYABLE FetchError                                   *)
(*   openedAt   the clock when the circuit last changed into OPEN          *)
(*   probes     operations invoked since the circuit last entered          *)
(*              HALF_OPEN                                                  *)
(*   probeSucc  operations admitted in HALF_OPEN that resolved while the   *)
(*              circuit was HALF_OPEN, since it last entered HALF_OPEN     *)
(*   found      the record as the execute call that invoked its operation  *)
(*              last looked it up, while nothing but the clock has changed *)
(*              since; NoCircuit otherwise                                 *)
(*   sinceOk    settled operations whose failure execute treats as         *)
(*              RETRYABLE (a non-FetchError included) since the circuit    *)
(*              was created or an operation succeeded                      *)
(*   net        while the circuit was CLOSED, since it was created or last *)
(*              closed: one up for each such failure, one down, not below  *)
(*              zero, for each success                                     *)
(***************************************************************************)
FreshObs ==
    [streak |-> 0, clean |-> TRUE, openedAt |-> 0, probes |-> 0, probeSucc |-> 0,
     found |-> NoCircuit, sinceOk |-> 0, net |-> 0]

\* An execute call found the circuit as `pre` and left it as `post`.
ObsOnExecute(o, pre, post, invoked) ==
    LET entered == pre.state = OPEN /\ post.state = HALF_OPEN
        n == IF invoked /\ post.state = HALF_OPEN THEN 1 ELSE 0
        found == IF invoked THEN pre ELSE NoCircuit
    IN  IF entered
          THEN [o EXCEPT !.probes = n, !.probeSucc = 0, !.found = found]
          ELSE [o EXCEPT !.probes = @ + n, !.found = found]

\* The operation of `call` settled with `outcome`, taking the circuit from
\* `pre` to `post`.
ObsOnSettle(o, pre, post, call, outcome) ==
    [o EXCEPT
       !.streak = IF outcome.ok THEN 0
                  ELSE IF outcome.error.isFetchError /\ outcome.error.type = RETRYABLE
                    THEN @ + 1
                  ELSE @,
       !.clean = @ /\ ~outcome.ok /\ outcome.error.isFetchError
                   /\ outcome.error.type = NON_RETRYABLE,
       !.openedAt = IF pre.state # OPEN /\ post.state = OPEN THEN now ELSE @,
       !.probeSucc = IF pre.state = HALF_OPEN /\ call.probe /\ outcome.ok
                       THEN @ + 1 ELSE @,
       !.found = NoCircuit,
       !.sinceOk = IF outcome.ok THEN 0
                   ELSE IF wrapError(outcome.error).type = RETRYABLE THEN @ + 1
                   ELSE @,
       !.net = IF pre.state # CLOSED
                 THEN (IF post.state = CLOSED THEN 0 ELSE @)
               ELSE IF outcome.ok THEN (IF @ > 0 THEN @ - 1 ELSE 0)
               ELSE IF wrapError(outcome.error).type = RETRYABLE THEN @ + 1
               ELSE @]

(***************************************************************************)
(* What the operation handed to execute may do when it settles.            *)
(***************************************************************************)
NoError == [isFetchError |-> FALSE, code |-> "none", type |-> "none"]

Resolved == [ok |-> TRUE, error |-> NoError]

Threw(error) == [ok |-> FALSE, error |-> error]

Outcomes ==
    { Resolved,
      Threw(FetchError("SERVER_ERROR_5XX", RETRYABLE)),
      Threw(FetchError("CLIENT_ERROR_4XX", NON_RETRYABLE)),
      Threw(RawError) }

(***************************************************************************)
(* Actions of the circuit breaker.                                         *)
(***************************************************************************)
\* execute(url, fn) up to and including the call of fn (lines 202-234).
Execute(url) ==
    LET domain == getDomain(url)
        pre == getOrCreateCircuit(domain)
        circuit == checkAndUpdateState(pre)
    IN  IF Rejects(circuit)
          THEN /\ circuits' = [circuits EXCEPT ![domain] = circuit]
               /\ obs' = [obs EXCEPT ![domain] = ObsOnExecute(@, pre, circuit, FALSE)]
               /\ lastEvent' = "CIRCUIT_BREAKER_OPEN"
               /\ UNCHANGED <<callerUrls, cbConfig, now, inflight, fnCalls, notCB>>
          ELSE /\ fnCalls < MaxCalls
               /\ BagCardinality(inflight) < MaxInflight
               /\ circuits' = [circuits EXCEPT ![domain] = admit(circuit)]
               /\ obs' = [obs EXCEPT ![domain] = ObsOnExecute(@, pre, admit(circuit), TRUE)]
               /\ fnCalls' = fnCalls + 1
               /\ inflight' = inflight (+) SetToBag({[domain |-> domain,
                                                      detached |-> FALSE,
                                                      probe |-> circuit.state = HALF_OPEN]})
               /\ lastEvent' = "invoked"
               /\ UNCHANGED <<callerUrls, cbConfig, now, notCB>>

\* execute(url, fn) from the settling of fn to its return or throw
\* (lines 234-274).  `circuit` is the object the call looked up when it began:
\* after reset() dropped that object from the map the call updates an object
\* nothing reads any more.
Settle(call, outcome) ==
    LET domain == call.domain
        pre == circuits[domain]
        post == IF outcome.ok THEN onSuccess(pre) ELSE onFailure(pre, outcome.error)
    IN  /\ call \in BagToSet(inflight)
        /\ inflight' = inflight (-) SetToBag({call})
        /\ IF call.detached
             THEN UNCHANGED <<circuits, obs>>
             ELSE /\ circuits' = [circuits EXCEPT ![domain] = post]
                  /\ obs' = [obs EXCEPT ![domain] = ObsOnSettle(@, pre, post, call, outcome)]
        /\ lastEvent' = IF outcome.ok THEN "ok" ELSE wrapError(outcome.error).code
        /\ UNCHANGED <<callerUrls, cbConfig, now, fnCalls, notCB>>

GetState(url) ==
    /\ getState(url) \in {CLOSED, OPEN, HALF_OPEN}
    /\ UNCHANGED vars

\* The calls in flight on a domain of D keep the circuit object reset dropped.
Detach(bag, D) ==
    LET moved(e) == IF e.domain \in D THEN [e EXCEPT !.detached = TRUE] ELSE e
        T == {moved(e) : e \in BagToSet(bag)}
        copies(t) == IF t.detached /\ t.domain \in D
                       THEN CopiesIn(t, bag) + CopiesIn([t EXCEPT !.detached = FALSE], bag)
                       ELSE CopiesIn(t, bag)
    IN  [t \in T |-> copies(t)]

\* reset(url) clearing the whole map, as reset() does.
ResetClearsAll(url) ==
    /\ circuits' = [d \in Domains |-> NoCircuit]
    /\ obs' = [d \in Domains |-> FreshObs]
    /\ inflight' = Detach(inflight, Domains)
    /\ lastEvent' = "reset"
    /\ UNCHANGED <<callerUrls, cbConfig, now, fnCalls, notCB>>

\* reset(url) with a non-empty url.
Reset(url) ==
    LET domain == getDomain(url)
    IN  /\ circuits' = [circuits EXCEPT ![domain] = NoCircuit]
        /\ obs' = [obs EXCEPT ![domain] = FreshObs]
        /\ inflight' = Detach(inflight, {domain})
        /\ lastEvent' = "reset"
        /\ UNCHANGED <<callerUrls, cbConfig, now, fnCalls, notCB>>

\* reset() without a url.
ResetAll ==
    /\ circuits' = [d \in Domains |-> NoCircuit]
    /\ obs' = [d \in Domains |-> FreshObs]
    /\ inflight' = Detach(inflight, Domains)
    /\ lastEvent' = "reset"
    /\ UNCHANGED <<callerUrls, cbConfig, now, fnCalls, notCB>>

\* Time passes.
Tick ==
    /\ now < MaxTime
    /\ now' = now + 1
    /\ UNCHANGED <<callerUrls, cbConfig, circuits, inflight, fnCalls, lastEvent, obs, notCB>>

\* The breaker as constructed, before any call.
FreshBreaker ==
    /\ circuits = [d \in Domains |-> NoCircuit]
    /\ now = 0
    /\ inflight = EmptyBag
    /\ fnCalls = 0
    /\ lastEvent = "none"
    /\ obs = [d \in Domains |-> FreshObs]

NextCB ==
    \/ \E url \in callerUrls : Execute(url)
    \/ \E call \in BagToSet(inflight), outcome \in Outcomes : Settle(call, outcome)
    \/ \E url \in callerUrls : GetState(url)
    \/ \E url \in callerUrls : Reset(url)
    \/ ResetAll
    \/ Tick

(***************************************************************************)
(* retryWithBackoff                                                        *)
(***************************************************************************)
Min(a, b) == IF a < b THEN a ELSE b
Max(a, b) == IF a > b THEN a ELSE b

RECURSIVE Pow2(_)
Pow2(n) == IF n = 0 THEN 1 ELSE 2 * Pow2(n - 1)

\* calculateDelay without the cap `Math.min(exponentialDelay, config.maxDelay)`.
calculateDelayNoCap(att, config, r) ==
    LET exponentialDelay == config.initialDelay * Pow2(att)
        scale == 100 * RandSteps
        scaled == exponentialDelay * scale
                    + exponentialDelay * config.jitterPct * (2 * r - RandSteps)
    IN  Max(0, scaled \div scale)

\* calculateDelay(attempt, config) with Math.random() = r / RandSteps and
\* config.jitterFactor = jitterPct / 100:
\*   floor(capped + capped * jitterFactor * (random - 0.5) * 2), at least 0.
calculateDelay(att, config, r) ==
    LET exponentialDelay == config.initialDelay * Pow2(att)
        cappedDelay == Min(exponentialDelay, config.maxDelay)
        scale == 100 * RandSteps
        scaled == cappedDelay * scale + cappedDelay * config.jitterPct * (2 * r - RandSteps)
    IN  Max(0, scaled \div scale)

NoLastError == [error |-> NoError, from |-> 0, same |-> FALSE]

\* The FetchError retryWithBackoff holds after invocation `n` of fn threw
\* `error`: the thrown object itself when it is a FetchError (same), else a
\* new FetchError wrapping it.
Caught(error, n) == [error |-> wrapError(error), from |-> n, same |-> error.isFetchError]

Pending == [status |-> "pending", value |-> 0, thrown |-> NoLastError]
Returned(v) == [status |-> "resolved", value |-> v, thrown |-> NoLastError]
Rejected(e) == [status |-> "rejected", value |-> 0, thrown |-> e]

\* `throw new FetchError('Unexpected retry state', FETCH_ERROR, NON_RETRYABLE)`
UnexpectedRetryState ==
    [error |-> FetchError("FETCH_ERROR", NON_RETRYABLE), from |-> 0, same |-> FALSE]

\* LoopHead with the loop condition `attempt < config.maxRetries`.
LoopHeadOneShort ==
    /\ rpc = "loop"
    /\ IF attempt < retryConfig.maxRetries
         THEN /\ rCalls' = rCalls + 1
              /\ rpc' = "await"
              /\ UNCHANGED rResult
         ELSE /\ rResult' = Rejected(IF lastError = NoLastError
                                       THEN UnexpectedRetryState ELSE lastError)
              /\ rpc' = "done"
              /\ UNCHANGED rCalls
    /\ UNCHANGED <<retryConfig, script, attempt, lastError, sleeps, onRetryCalls,
                   lastOnRetry, delay, notRetry>>

\* The head of the for loop: `attempt <= config.maxRetries`, then `fn()`; or
\* the statements after the loop (lines 220-228).
LoopHead ==
    /\ rpc = "loop"
    /\ IF attempt <= retryConfig.maxRetries
         THEN /\ rCalls' = rCalls + 1
              /\ rpc' = "await"
              /\ UNCHANGED rResult
         ELSE /\ rResult' = Rejected(IF lastError = NoLastError
                                       THEN UnexpectedRetryState ELSE lastError)
              /\ rpc' = "done"
              /\ UNCHANGED rCalls
    /\ UNCHANGED <<retryConfig, script, attempt, lastError, sleeps, onRetryCalls,
                   lastOnRetry, delay, notRetry>>

\* `return await fn()` resolved.
FnResolves ==
    /\ rpc = "await"
    /\ script[rCalls].ok
    /\ rResult' = Returned(rCalls)
    /\ rpc' = "done"
    /\ UNCHANGED <<retryConfig, script, attempt, rCalls, lastError, sleeps,
                   onRetryCalls, lastOnRetry, delay, notRetry>>

\* FnThrows without the NON_RETRYABLE test: every failure is retried.
FnThrowsRetriesAll ==
    LET fetchError == Caught(script[rCalls].error, rCalls)
    IN  /\ rpc = "await"
        /\ ~script[rCalls].ok
        /\ lastError' = fetchError
        /\ IF attempt < retryConfig.maxRetries
             THEN /\ \E r \in 0..(RandSteps - 1) :
                        delay' = calculateDelay(attempt, retryConfig, r)
                  /\ onRetryCalls' = onRetryCalls + 1
                  /\ lastOnRetry' = [attempt |-> attempt + 1, error |-> fetchError,
                                      delay |-> delay']
                  /\ sleeps' = sleeps + 1
                  /\ rpc' = "sleep"
                  /\ UNCHANGED <<attempt, rResult>>
             ELSE /\ attempt' = attempt + 1
                  /\ rpc' = "loop"
                  /\ UNCHANGED <<rResult, sleeps, onRetryCalls, lastOnRetry, delay>>
        /\ UNCHANGED <<retryConfig, script, rCalls, notRetry>>

\* FnThrows keeping the first error in lastError (`lastError ??= fetchError`).
FnThrowsKeepsFirstError ==
    LET fetchError == Caught(script[rCalls].error, rCalls)
    IN  /\ rpc = "await"
        /\ ~script[rCalls].ok
        /\ lastError' = IF lastError = NoLastError THEN fetchError ELSE lastError
        /\ IF fetchError.error.type = NON_RETRYABLE
             THEN /\ rResult' = Rejected(fetchError)
                  /\ rpc' = "done"
                  /\ UNCHANGED <<attempt, sleeps, onRetryCalls, lastOnRetry, delay>>
             ELSE IF attempt < retryConfig.maxRetries
               THEN /\ \E r \in 0..(RandSteps - 1) :
                          delay' = calculateDelay(attempt, retryConfig, r)
                    /\ onRetryCalls' = onRetryCalls + 1
                    /\ lastOnRetry' = [attempt |-> attempt + 1, error |-> fetchError,
                                        delay |-> delay']
                    /\ sleeps' = sleeps + 1
                    /\ rpc' = "sleep"
                    /\ UNCHANGED <<attempt, rResult>>
               ELSE /\ attempt' = attempt + 1
                    /\ rpc' = "loop"
                    /\ UNCHANGED <<rResult, sleeps, onRetryCalls, lastOnRetry, delay>>
        /\ UNCHANGED <<retryConfig, script, rCalls, notRetry>>

\* `await fn()` threw: the catch block (lines 182-217), up to `await sleep(delay)`
\* or to the end of the iteration.
FnThrows ==
    LET fetchError == Caught(script[rCalls].error, rCalls)
    IN  /\ rpc = "await"
        /\ ~script[rCalls].ok
        /\ lastError' = fetchError
        /\ IF fetchError.error.type = NON_RETRYABLE
             THEN /\ rResult' = Rejected(fetchError)
                  /\ rpc' = "done"
                  /\ UNCHANGED <<attempt, sleeps, onRetryCalls, lastOnRetry, delay>>
             ELSE IF attempt < retryConfig.maxRetries
               THEN /\ \E r \in 0..(RandSteps - 1) :
                          delay' = calculateDelay(attempt, retryConfig, r)
                    /\ onRetryCalls' = onRetryCalls + 1
                    /\ lastOnRetry' = [attempt |-> attempt + 1, error |-> fetchError,
                                        delay |-> delay']
                    /\ sleeps' = sleeps + 1
                    /\ rpc' = "sleep"
                    /\ UNCHANGED <<attempt, rResult>>
               ELSE /\ attempt' = attempt + 1
                    /\ rpc' = "loop"
                    /\ UNCHANGED <<rResult, sleeps, onRetryCalls, lastOnRetry, delay>>
        /\ UNCHANGED <<retryConfig, script, rCalls, notRetry>>

\* `await sleep(delay)` is over: `attempt++`.
Wake ==
    /\ rpc = "sleep"
    /\ attempt' = attempt + 1
    /\ rpc' = "loop"
    /\ UNCHANGED <<retryConfig, script, rCalls, lastError, rResult, sleeps,
                   onRetryCalls, lastOnRetry, delay, notRetry>>

\* What fn may do on one invocation.
ScriptOutcomes ==
    { Resolved,
      Threw(FetchError("SERVER_ERROR_5XX", RETRYABLE)),
      Threw(FetchError("CLIENT_ERROR_4XX", NON_RETRYABLE)),
      Threw(RawError) }

\* retryWithBackoff has been called and has not run yet.
RetryCalled ==
    /\ attempt = 0
    /\ rpc = "loop"
    /\ rCalls = 0
    /\ lastError = NoLastError
    /\ rResult = Pending
    /\ sleeps = 0
    /\ onRetryCalls = 0
    /\ lastOnRetry = [attempt |-> 0, error |-> NoLastError, delay |-> 0]
    /\ delay = 0

NextRetry ==
    \/ LoopHead
    \/ FnResolves
    \/ FnThrows
    \/ Wake

(***************************************************************************)
(* RequestManager (services/request-manager), a facade over a queue of     *)
(* operations.  The queue itself is a dependency of the repository: its    *)
(* behaviour is taken from the description of the Request Scheduler.       *)
(***************************************************************************)
Tasks == 1..MaxTasks

\* The constructor's queueOptions.  An optional number that is undefined is 0.
\* queueOptions without `concurrency: config.concurrency`: the queue keeps
\* its default, unbounded concurrency.
queueOptionsUnbounded(config) ==
    [concurrency |-> MaxTasks + 1,
     timeout |-> config.timeout,
     throwOnTimeout |-> config.timeout # 0,
     intervalCap |-> IF config.intervalCap # 0 /\ config.interval # 0
                       THEN config.intervalCap ELSE 0,
     interval |-> IF config.intervalCap # 0 /\ config.interval # 0
                    THEN config.interval ELSE 0]

queueOptions(config) ==
    [concurrency |-> config.concurrency,
     timeout |-> config.timeout,
     throwOnTimeout |-> config.timeout # 0,
     intervalCap |-> IF config.intervalCap # 0 /\ config.interval # 0
                       THEN config.intervalCap ELSE 0,
     interval |-> IF config.intervalCap # 0 /\ config.interval # 0
                    THEN config.interval ELSE 0]

\* `new PQueue(queueOptions)`: nothing queued, nothing running, not paused.
NewQueue(options) ==
    [options |-> options, items |-> <<>>, running |-> {}, isPaused |-> FALSE,
     intervalCount |-> 0]

\* The getters of RequestManager.
pending == Cardinality(queue.running)
size == Len(queue.items)
queueDepth == pending + size
isPaused == queue.isPaused

\* onIdle() resolves when nothing is queued and nothing is running.
onIdleResolves == size = 0 /\ pending = 0

\* Admission: the operation at the head of the queue begins when the queue is
\* not paused and the concurrency bound and the rate window allow it.
tryToStartAnother(q) ==
    IF /\ q.items # <<>>
       /\ ~q.isPaused
       /\ Cardinality(q.running) < q.options.concurrency
       /\ (q.options.intervalCap = 0 \/ q.intervalCount < q.options.intervalCap)
      THEN [q EXCEPT !.items = Tail(@),
                     !.running = @ \cup {Head(q.items)},
                     !.intervalCount = @ + 1]
      ELSE q

\* Admit queued operations for as long as one can be admitted.
RECURSIVE processQueue(_)
processQueue(q) ==
    LET next == tryToStartAnother(q)
    IN  IF next = q THEN q ELSE processQueue(next)

\* The state of every operation after the queue changed to `q`: the ones `q`
\* runs are running, the ones it holds are queued.
Placed(states, q) ==
    [t \in Tasks |->
       IF t \in q.running THEN "running"
       ELSE IF \E i \in 1..Len(q.items) : q.items[i] = t THEN "queued"
       ELSE states[t]]

\* execute(fn): `this.queue.add(fn)`.  Operations are numbered in the order
\* of their submission.
execute(t) ==
    /\ taskState[t] = "new"
    /\ \A u \in Tasks : u < t => taskState[u] # "new"
    /\ queue' = tryToStartAnother([queue EXCEPT !.items = Append(@, t)])
    /\ taskState' = Placed(taskState, queue')
    /\ rmCaller' = [rmCaller EXCEPT !.last = "other"]
    /\ UNCHANGED <<rmConfig, notRM>>

\* A running operation settles: its slot is released and the next queued
\* operation may begin.  One operation's failure affects no other.
TaskSettles(t, outcome) ==
    /\ t \in queue.running
    /\ queue' = tryToStartAnother([queue EXCEPT !.running = @ \ {t}])
    /\ taskState' = Placed([taskState EXCEPT ![t] = outcome], queue')
    /\ rmCaller' = [rmCaller EXCEPT !.last = "other"]
    /\ UNCHANGED <<rmConfig, notRM>>

\* The per-task timeout cancels a running operation and rejects it with a
\* timeout error.
TaskTimesOut(t) ==
    /\ queue.options.timeout # 0
    /\ TaskSettles(t, "timed out")

\* The rate window ends: the count of admissions starts again.
IntervalEnds ==
    /\ queue.options.intervalCap # 0
    /\ queue.intervalCount > 0
    /\ queue' = processQueue([queue EXCEPT !.intervalCount = 0])
    /\ taskState' = Placed(taskState, queue')
    /\ rmCaller' = [rmCaller EXCEPT !.last = "other"]
    /\ UNCHANGED <<rmConfig, notRM>>

\* pause() that does not reach the queue.
pauseIgnored ==
    /\ queue' = queue
    /\ taskState' = Placed(taskState, queue')
    /\ rmCaller' = [last |-> "pause", paused |-> TRUE]
    /\ UNCHANGED <<rmConfig, notRM>>

\* pause(): `this.queue.pause()`.
pause ==
    /\ queue' = [queue EXCEPT !.isPaused = TRUE]
    /\ taskState' = Placed(taskState, queue')
    /\ rmCaller' = [last |-> "pause", paused |-> TRUE]
    /\ UNCHANGED <<rmConfig, notRM>>

\* start(): `this.queue.start()`.
start ==
    /\ queue' = IF queue.isPaused
                  THEN processQueue([queue EXCEPT !.isPaused = FALSE])
                  ELSE queue
    /\ taskState' = Placed(taskState, queue')
    /\ rmCaller' = [last |-> "other", paused |-> FALSE]
    /\ UNCHANGED <<rmConfig, notRM>>

\* clear() calling `this.queue.pause()`.
clearPauses ==
    /\ queue' = [queue EXCEPT !.isPaused = TRUE]
    /\ taskState' = Placed(taskState, queue')
    /\ rmCaller' = [rmCaller EXCEPT !.last = "clear"]
    /\ UNCHANGED <<rmConfig, notRM>>

\* clear(): `this.queue.clear()` drops the queued operations.
clear ==
    /\ queue' = [queue EXCEPT !.items = <<>>]
    /\ taskState' = [t \in Tasks |->
                       IF taskState[t] = "queued" THEN "dropped" ELSE taskState[t]]
    /\ rmCaller' = [rmCaller EXCEPT !.last = "clear"]
    /\ UNCHANGED <<rmConfig, notRM>>

\* `new RequestManager(rmConfig)`, no operation submitted yet.
FreshManager ==
    /\ queue = NewQueue(queueOptions(rmConfig))
    /\ taskState = [t \in Tasks |-> "new"]
    /\ rmCaller = [last |-> "other", paused |-> FALSE]

NextRM ==
    \/ \E t \in Tasks : execute(t)
    \/ \E t \in Tasks : \E outcome \in {"resolved", "rejected"} : TaskSettles(t, outcome)
    \/ \E t \in Tasks : TaskTimesOut(t)
    \/ IntervalEnds
    \/ pause
    \/ start
    \/ clear

(***************************************************************************)
(* Error classification (utils/errors): classifyError, createHttpError and *)
(* FetchError.toUserMessage.  A message is a sequence of strings, read as  *)
(* their concatenation; the message of a raw error is the set of the       *)
(* fragments it contains.                                                  *)
(***************************************************************************)
ErrorCodes ==
    {"NETWORK_TIMEOUT", "DNS_FAILURE", "CONNECTION_ERROR", "CLIENT_ERROR_4XX",
     "SERVER_ERROR_5XX", "CIRCUIT_BREAKER_OPEN", "ROBOTS_TXT_BLOCKED", "FETCH_ERROR",
     "ABORT_ERROR"}

\* `options?.statusCode` when the option is absent.
NoStatus == [defined |-> FALSE, value |-> 0]
Status(n) == [defined |-> TRUE, value |-> n]

\* `options?.cause` when the option is absent.
NoCause == [isFetchError |-> FALSE, name |-> "", message |-> {}]

\* `new FetchError(message, code, type, {cause, statusCode})`
NewFetchError(message, code, type, cause, statusCode) ==
    [isFetchError |-> TRUE, name |-> "FetchError", message |-> message, code |-> code,
     type |-> type, cause |-> cause, statusCode |-> statusCode]

\* No FetchError was produced yet.
NoFetchError ==
    [isFetchError |-> FALSE, name |-> "", message |-> <<>>, code |-> "none",
     type |-> "none", cause |-> NoCause, statusCode |-> NoStatus]

\* The fragments a raw error's message is made of, as the runtime and the
\* libraries spell them.
MessageFragments ==
    {"aborted", "Timeout", "timed out", "ENOTFOUND", "getaddrinfo", "DNS",
     "ECONNREFUSED", "ECONNRESET", "EPIPE", "network", "socket", "fetch failed"}

\* String.prototype.toLowerCase on a fragment.
toLowerCase(fragment) ==
    CASE fragment = "Timeout" -> "timeout"
      [] fragment = "ENOTFOUND" -> "enotfound"
      [] fragment = "DNS" -> "dns"
      [] fragment = "ECONNREFUSED" -> "econnrefused"
      [] fragment = "ECONNRESET" -> "econnreset"
      [] fragment = "EPIPE" -> "epipe"
      [] OTHER -> fragment

\* `lowerMessage.includes(needle)`
includes(lowerMessage, needle) == needle \in lowerMessage

\* ` for ${url}` when url is given, else ''.
forUrl(prefix, url) == IF url # "" THEN <<prefix, url>> ELSE <<>>

\* classifyError testing the timeout indicators before the abort indicators.
classifyErrorTimeoutFirst(error, url) ==
    IF error.isFetchError THEN error
    ELSE
      LET errorName == error.name
          lowerMessage == {toLowerCase(f) : f \in error.message}
      IN  IF \/ includes(lowerMessage, "timeout")
             \/ includes(lowerMessage, "timed out")
             \/ errorName = "TimeoutError"
            THEN NewFetchError(<<"Request timed out">> \o forUrl(" for ", url),
                               "NETWORK_TIMEOUT", RETRYABLE, error, NoStatus)
          ELSE IF errorName = "AbortError" \/ includes(lowerMessage, "aborted")
            THEN NewFetchError(<<"Request was aborted">>, "ABORT_ERROR", NON_RETRYABLE,
                               error, NoStatus)
          ELSE IF \/ includes(lowerMessage, "enotfound")
                  \/ includes(lowerMessage, "getaddrinfo")
                  \/ includes(lowerMessage, "dns")
            THEN NewFetchError(<<"DNS resolution failed">> \o forUrl(" for ", url),
                               "DNS_FAILURE", NON_RETRYABLE, error, NoStatus)
          ELSE IF \/ includes(lowerMessage, "econnrefused")
                  \/ includes(lowerMessage, "econnreset")
                  \/ includes(lowerMessage, "epipe")
                  \/ includes(lowerMessage, "network")
                  \/ includes(lowerMessage, "socket")
            THEN NewFetchError(<<"Connection error">> \o forUrl(" for ", url),
                               "CONNECTION_ERROR", RETRYABLE, error, NoStatus)
          ELSE NewFetchError(<<"Unexpected error">> \o forUrl(" fetching ", url),
                             "FETCH_ERROR", RETRYABLE, error, NoStatus)

\* classifyError(error, url)
classifyError(error, url) ==
    IF error.isFetchError THEN error
    ELSE
      LET errorName == error.name
          lowerMessage == {toLowerCase(f) : f \in error.message}
      IN  IF errorName = "AbortError" \/ includes(lowerMessage, "aborted")
            THEN NewFetchError(<<"Request was aborted">>, "ABORT_ERROR", NON_RETRYABLE,
                               error, NoStatus)
          ELSE IF \/ includes(lowerMessage, "timeout")
                  \/ includes(lowerMessage, "timed out")
                  \/ errorName = "TimeoutError"
            THEN NewFetchError(<<"Request timed out">> \o forUrl(" for ", url),
                               "NETWORK_TIMEOUT", RETRYABLE, error, NoStatus)
          ELSE IF \/ includes(lowerMessage, "enotfound")
                  \/ includes(lowerMessage, "getaddrinfo")
                  \/ includes(lowerMessage, "dns")
            THEN NewFetchError(<<"DNS resolution failed">> \o forUrl(" for ", url),
                               "DNS_FAILURE", NON_RETRYABLE, error, NoStatus)
          ELSE IF \/ includes(lowerMessage, "econnrefused")
                  \/ includes(lowerMessage, "econnreset")
                  \/ includes(lowerMessage, "epipe")
                  \/ includes(lowerMessage, "network")
                  \/ includes(lowerMessage, "socket")
            THEN NewFetchError(<<"Connection error">> \o forUrl(" for ", url),
                               "CONNECTION_ERROR", RETRYABLE, error, NoStatus)
          ELSE NewFetchError(<<"Unexpected error">> \o forUrl(" fetching ", url),
                             "FETCH_ERROR", RETRYABLE, error, NoStatus)

\* `HTTP ${String(statusCode)} ${statusText} for ${url}`
httpMessage(url, statusCode, statusText) ==
    <<"HTTP ", ToString(statusCode), " ", statusText, " for ", url>>

\* createHttpError with the client range closed at 500.
createHttpErrorClosedRange(url, statusCode, statusText) ==
    IF statusCode >= 400 /\ statusCode <= 500
      THEN NewFetchError(httpMessage(url, statusCode, statusText), "CLIENT_ERROR_4XX",
                         NON_RETRYABLE, NoCause, Status(statusCode))
    ELSE IF statusCode >= 500 /\ statusCode < 600
      THEN NewFetchError(httpMessage(url, statusCode, statusText), "SERVER_ERROR_5XX",
                         RETRYABLE, NoCause, Status(statusCode))
    ELSE NewFetchError(httpMessage(url, statusCode, statusText), "FETCH_ERROR",
                       NON_RETRYABLE, NoCause, Status(statusCode))

\* createHttpError(url, statusCode, statusText)
createHttpError(url, statusCode, statusText) ==
    IF statusCode >= 400 /\ statusCode < 500
      THEN NewFetchError(httpMessage(url, statusCode, statusText), "CLIENT_ERROR_4XX",
                         NON_RETRYABLE, NoCause, Status(statusCode))
    ELSE IF statusCode >= 500 /\ statusCode < 600
      THEN NewFetchError(httpMessage(url, statusCode, statusText), "SERVER_ERROR_5XX",
                         RETRYABLE, NoCause, Status(statusCode))
    ELSE NewFetchError(httpMessage(url, statusCode, statusText), "FETCH_ERROR",
                       NON_RETRYABLE, NoCause, Status(statusCode))

\* FetchError.getClientErrorMessage()
getClientErrorMessage(error) ==
    IF ~error.statusCode.defined THEN "The request was invalid."
    ELSE CASE error.statusCode.value = 400 -> "Bad request."
           [] error.statusCode.value = 401 -> "Authentication required."
           [] error.statusCode.value = 403 -> "Access forbidden."
           [] error.statusCode.value = 404 -> "Resource not found."
           [] error.statusCode.value = 429 -> "Rate limit exceeded. Please try again later."
           [] OTHER -> "The request was invalid."

\* `String(this.statusCode ?? 'unknown')`
statusString(error) ==
    IF error.statusCode.defined THEN ToString(error.statusCode.value) ELSE "unknown"

\* toUserMessage whose default case passes the error's own message on.
toUserMessageLeaky(error) ==
    CASE error.code = "NETWORK_TIMEOUT" ->
           <<"The request timed out. The server took too long to respond.">>
      [] error.code = "DNS_FAILURE" ->
           <<"Unable to resolve the domain name. Please check the URL.">>
      [] error.code = "CONNECTION_ERROR" ->
           <<"Failed to establish a connection to the server.">>
      [] error.code = "CLIENT_ERROR_4XX" ->
           <<"Request failed with client error (", statusString(error), "). ",
             getClientErrorMessage(error)>>
      [] error.code = "SERVER_ERROR_5XX" ->
           <<"The server encountered an error (", statusString(error),
             "). Please try again later.">>
      [] error.code = "CIRCUIT_BREAKER_OPEN" ->
           <<"Too many recent failures for this domain. Temporarily blocking requests to protect the service.">>
      [] error.code = "ROBOTS_TXT_BLOCKED" ->
           <<"Access to this URL is blocked by the robots.txt file.">>
      [] error.code = "ABORT_ERROR" ->
           <<"The request was aborted or cancelled.">>
      [] OTHER -> error.message

\* FetchError.toUserMessage()
toUserMessage(error) ==
    CASE error.code = "NETWORK_TIMEOUT" ->
           <<"The request timed out. The server took too long to respond.">>
      [] error.code = "DNS_FAILURE" ->
           <<"Unable to resolve the domain name. Please check the URL.">>
      [] error.code = "CONNECTION_ERROR" ->
           <<"Failed to establish a connection to the server.">>
      [] error.code = "CLIENT_ERROR_4XX" ->
           <<"Request failed with client error (", statusString(error), "). ",
             getClientErrorMessage(error)>>
      [] error.code = "SERVER_ERROR_5XX" ->
           <<"The server encountered an error (", statusString(error),
             "). Please try again later.">>
      [] error.code = "CIRCUIT_BREAKER_OPEN" ->
           <<"Too many recent failures for this domain. Temporarily blocking requests to protect the service.">>
      [] error.code = "ROBOTS_TXT_BLOCKED" ->
           <<"Access to this URL is blocked by the robots.txt file.">>
      [] error.code = "ABORT_ERROR" ->
           <<"The request was aborted or cancelled.">>
      [] OTHER -> <<"An unexpected error occurred while fetching the URL.">>

\* The `'Unexpected error'` FetchError that CircuitBreaker.execute and
\* retryWithBackoff make of a thrown value that is not a FetchError.
wrapUnexpected(error) ==
    IF error.isFetchError THEN error
    ELSE NewFetchError(<<"Unexpected error">>, "FETCH_ERROR", RETRYABLE, error, NoStatus)

\* A thrown value that is not a FetchError: an Error with a name and a
\* message, or (name "") a value that is no Error.
RawErrors ==
    [isFetchError : {FALSE},
     name : {"", "Error", "AbortError", "TimeoutError"},
     message : {m \in SUBSET MessageFragments : Cardinality(m) <= MaxFragments}]

\* The arguments of createHttpError.
HttpResponses ==
    [isFetchError : {FALSE}, name : {"http"}, statusCode : 0..MaxStatus,
     statusText : {"Status Text"}]

\* FetchErrors made directly with `new FetchError(...)`.
GivenFetchErrors ==
    {NewFetchError(<<message>>, code, type, NoCause, statusCode) :
       message \in {"Test error", "/srv/app/secret.ts: internal"},
       code \in ErrorCodes,
       type \in {RETRYABLE, NON_RETRYABLE},
       statusCode \in {NoStatus, Status(404), Status(429), Status(503)}}

\* Nothing has been classified yet.
NothingClassified ==
    /\ fetchErr = NoFetchError
    /\ producedBy = "none"
    /\ userMsg = <<>>

\* classifyError(errArg, urlArg)
ClassifyError ==
    /\ producedBy = "none"
    /\ errArg.name # "http"
    /\ fetchErr' = classifyError(errArg, urlArg)
    /\ producedBy' = IF errArg.isFetchError THEN "constructor" ELSE "classifyError"
    /\ UNCHANGED <<errArg, urlArg, userMsg, notErr>>

\* createHttpError(urlArg, statusCode, statusText)
CreateHttpError ==
    /\ producedBy = "none"
    /\ errArg.name = "http"
    /\ fetchErr' = createHttpError(urlArg, errArg.statusCode, errArg.statusText)
    /\ producedBy' = "createHttpError"
    /\ UNCHANGED <<errArg, urlArg, userMsg, notErr>>

\* errArg is thrown by the operation given to CircuitBreaker.execute or to
\* retryWithBackoff, which catch it.
CatchThrown ==
    /\ producedBy = "none"
    /\ errArg.name # "http"
    /\ fetchErr' = wrapUnexpected(errArg)
    /\ producedBy' = IF errArg.isFetchError THEN "constructor" ELSE "catch"
    /\ UNCHANGED <<errArg, urlArg, userMsg, notErr>>

\* fetchErr.toUserMessage()
ToUserMessage ==
    /\ producedBy # "none"
    /\ userMsg = <<>>
    /\ userMsg' = toUserMessage(fetchErr)
    /\ UNCHANGED <<errArg, urlArg, fetchErr, producedBy, notErr>>

NextErr ==
    \/ ClassifyError
    \/ CreateHttpError
    \/ CatchThrown
    \/ ToUserMessage

(***************************************************************************)
(* streamFetch (utils/fetch-stream): one call, from the call of            *)
(* requestManager.execute to the end of the body generator.                *)
(*                                                                         *)
(* sf.pc:  "queued"    requestManager.execute was called, the operation    *)
(*                     has not started                                     *)
(*         "fetching"  `await global.fetch(...)` is pending                *)
(*         "rejected"  streamFetch rejected                                *)
(*         "returned"  streamFetch resolved, body was not started          *)
(*         "reading"   body is at `await reader.read()`                    *)
(*         "yielded"   body is suspended at a `yield`                      *)
(*         "flushed"   body is suspended at `yield finalChunk`             *)
(*         "ended"     body has finished or thrown                         *)
(***************************************************************************)
\* The statements of streamFetch before `await requestManager.execute(...)`.
StreamFetchCalled ==
    /\ callerSignal = (sfOptions.signal = "aborted")
    /\ sf = [pc |-> "queued",
             controllerAborted |-> FALSE,
             abortHandler |-> sfOptions.signal # "none",
             timeoutId |-> IF sfOptions.timeout # 0 THEN "armed" ELSE "undefined",
             cancelled |-> FALSE]
    /\ transport = [calls |-> 0, chunks |-> <<>>, residue |-> FALSE]
    /\ reader = [locked |-> FALSE, cancels |-> 0, releases |-> 0]
    /\ sfSeen = [outcome |-> "pending", yielded |-> 0, body |-> "none",
                 fired |-> FALSE, elapsed |-> FALSE, firedAfter |-> -1]

\* The `finally` of streamFetch: the listener is removed and the timer cleared.
streamFetchFinally(l) ==
    [l EXCEPT !.abortHandler = FALSE,
              !.timeoutId = IF @ = "undefined" THEN @ ELSE "cleared"]

\* The call is waiting for the transport or for the body.
InFlight == sf.pc \in {"queued", "fetching", "reading"}

\* The scheduler starts the operation, which calls global.fetch with
\* controller.signal.
OperationStarts ==
    /\ sf.pc = "queued"
    /\ sf' = [sf EXCEPT !.pc = "fetching"]
    /\ transport' = [transport EXCEPT !.calls = @ + 1]
    /\ UNCHANGED <<sfOptions, callerSignal, reader, sfSeen, notSF>>

\* global.fetch rejects: with an AbortError when controller.signal is
\* aborted, else with a network error.  The catch block wraps either.
FetchRejects ==
    /\ sf.pc = "fetching"
    /\ sf' = streamFetchFinally([sf EXCEPT !.pc = "rejected"])
    /\ sfSeen' = [sfSeen EXCEPT !.outcome = IF sf.controllerAborted
                                             THEN "Request aborted"
                                             ELSE "Failed to fetch"]
    /\ UNCHANGED <<sfOptions, callerSignal, transport, reader, notSF>>

\* global.fetch resolves with a response that is not ok or has no body.
ResponseUnusable(why) ==
    /\ sf.pc = "fetching"
    /\ ~sf.controllerAborted
    /\ sf' = streamFetchFinally([sf EXCEPT !.pc = "rejected"])
    /\ sfSeen' = [sfSeen EXCEPT !.outcome = why]
    /\ UNCHANGED <<sfOptions, callerSignal, transport, reader, notSF>>

\* global.fetch resolves with an ok response whose body will deliver
\* `chunks` (each decoding to text or to nothing yet) and leave the decoder
\* with or without a residue: getReader(), the generator is made, streamFetch
\* returns and its `finally` runs.
ResponseArrives(chunks, residue) ==
    /\ sf.pc = "fetching"
    /\ ~sf.controllerAborted
    /\ sf' = streamFetchFinally([sf EXCEPT !.pc = "returned"])
    /\ transport' = [transport EXCEPT !.chunks = chunks, !.residue = residue]
    /\ reader' = [reader EXCEPT !.locked = TRUE]
    /\ sfSeen' = [sfSeen EXCEPT !.outcome = "resolved"]
    /\ UNCHANGED <<sfOptions, callerSignal, notSF>>

\* The caller's signal fires: abortHandler, where registered, aborts the
\* controller.
CallerAborts ==
    /\ sfOptions.signal # "none"
    /\ ~callerSignal
    /\ callerSignal' = TRUE
    /\ sf' = [sf EXCEPT !.controllerAborted = @ \/ sf.abortHandler]
    /\ sfSeen' = [sfSeen EXCEPT !.fired = @ \/ InFlight,
                                !.firedAfter = sfSeen.yielded]
    /\ UNCHANGED <<sfOptions, transport, reader, notSF>>

\* options.timeout milliseconds have passed since the call: the timer, where
\* still armed, aborts the controller.
TimeoutElapses ==
    /\ sfOptions.timeout # 0
    /\ ~sfSeen.elapsed
    /\ sf' = [sf EXCEPT !.controllerAborted = @ \/ sf.timeoutId = "armed",
                        !.timeoutId = IF @ = "armed" THEN "fired" ELSE @]
    /\ sfSeen' = [sfSeen EXCEPT !.elapsed = TRUE, !.fired = @ \/ InFlight]
    /\ UNCHANGED <<sfOptions, callerSignal, transport, reader, notSF>>

\* generatorFinally leaving the lock to reader.cancel().
generatorFinallyKeepsLock(r, cancelled) ==
    [r EXCEPT !.cancels = IF cancelled THEN @ ELSE @ + 1,
              !.releases = IF cancelled THEN @ + 1 ELSE @,
              !.locked = ~cancelled]

\* The `finally` of the generator: cancel() unless cancelled, releaseLock().
generatorFinally(r, cancelled) ==
    [r EXCEPT !.cancels = IF cancelled THEN @ ELSE @ + 1,
              !.releases = @ + 1,
              !.locked = FALSE]

\* The head of the generator's loop: `signal?.aborted` throws, else
\* reader.read() is called.
LoopTop ==
    IF sfOptions.signal # "none" /\ callerSignal
      THEN /\ sf' = [sf EXCEPT !.pc = "ended"]
           /\ reader' = generatorFinally(reader, FALSE)
           /\ sfSeen' = [sfSeen EXCEPT !.body = "Request aborted"]
      ELSE /\ sf' = [sf EXCEPT !.pc = "reading"]
           /\ UNCHANGED <<reader, sfSeen>>

\* The consumer asks for the next chunk.
ConsumerPulls ==
    /\ sf.pc \in {"returned", "yielded", "flushed"}
    /\ IF sf.pc = "flushed"
         THEN /\ sf' = [sf EXCEPT !.pc = "ended"]
              /\ reader' = generatorFinally(reader, FALSE)
              /\ sfSeen' = [sfSeen EXCEPT !.body = "done"]
         ELSE LoopTop
    /\ UNCHANGED <<sfOptions, callerSignal, transport, notSF>>

\* reader.read() resolves with the next chunk, which decodes to text (yield)
\* or to nothing yet (the loop goes round).
ReadDelivers ==
    /\ sf.pc = "reading"
    /\ transport.chunks # <<>>
    /\ transport' = [transport EXCEPT !.chunks = Tail(@)]
    /\ IF Head(transport.chunks) = "text"
         THEN /\ sf' = [sf EXCEPT !.pc = "yielded"]
              /\ sfSeen' = [sfSeen EXCEPT !.yielded = @ + 1]
              /\ UNCHANGED reader
         ELSE LoopTop
    /\ UNCHANGED <<sfOptions, callerSignal, notSF>>

\* reader.read() resolves with done: the decoder is flushed.
ReadEnds ==
    /\ sf.pc = "reading"
    /\ transport.chunks = <<>>
    /\ IF transport.residue
         THEN /\ sf' = [sf EXCEPT !.pc = "flushed"]
              /\ sfSeen' = [sfSeen EXCEPT !.yielded = @ + 1]
              /\ UNCHANGED reader
         ELSE /\ sf' = [sf EXCEPT !.pc = "ended"]
              /\ reader' = generatorFinally(reader, FALSE)
              /\ sfSeen' = [sfSeen EXCEPT !.body = "done"]
    /\ transport' = [transport EXCEPT !.residue = FALSE]
    /\ UNCHANGED <<sfOptions, callerSignal, notSF>>

\* reader.read() rejects: with an AbortError when controller.signal is
\* aborted (wrapped, cancelled = true), else with the error of the transport
\* (rethrown).
ReadRejects ==
    /\ sf.pc = "reading"
    /\ sf' = [sf EXCEPT !.pc = "ended", !.cancelled = sf.controllerAborted]
    /\ reader' = generatorFinally(reader, sf.controllerAborted)
    /\ sfSeen' = [sfSeen EXCEPT !.body = IF sf.controllerAborted
                                          THEN "Request aborted"
                                          ELSE "read error"]
    /\ UNCHANGED <<sfOptions, callerSignal, transport, notSF>>

\* The consumer leaves its loop early: the generator returns from its yield.
ConsumerStops ==
    /\ sf.pc \in {"yielded", "flushed"}
    /\ sf' = [sf EXCEPT !.pc = "ended"]
    /\ reader' = generatorFinally(reader, FALSE)
    /\ sfSeen' = [sfSeen EXCEPT !.body = "returned"]
    /\ UNCHANGED <<sfOptions, callerSignal, transport, notSF>>

\* The bodies a server may send.
Bodies ==
    UNION {[1..n -> {"text", "empty"}] : n \in 0..MaxChunks}

NextSF ==
    \/ OperationStarts
    \/ FetchRejects
    \/ \E why \in {"status code", "No response body"} : ResponseUnusable(why)
    \/ \E chunks \in Bodies, residue \in BOOLEAN : ResponseArrives(chunks, residue)
    \/ CallerAborts
    \/ TimeoutElapses
    \/ ConsumerPulls
    \/ ReadDelivers
    \/ ReadEnds
    \/ ReadRejects
    \/ ConsumerStops

(***************************************************************************)
(* htmlToMarkdownStream (utils/markdown-stream).  Text is a sequence of    *)
(* one-character strings.                                                  *)
(***************************************************************************)
Whitespace == {" ", "\n"}

\* The character U+0060 (grave accent).
Backtick == "U+0060"

\* content.replace(/\s+/g, ' ')
RECURSIVE collapseWhitespace(_)
collapseWhitespace(s) ==
    IF s = <<>> THEN <<>>
    ELSE IF Head(s) \in Whitespace
      THEN IF Len(s) > 1 /\ s[2] \in Whitespace
             THEN collapseWhitespace(Tail(s))
             ELSE <<" ">> \o collapseWhitespace(Tail(s))
      ELSE <<Head(s)>> \o collapseWhitespace(Tail(s))

RECURSIVE trimStart(_)
trimStart(s) ==
    IF s # <<>> /\ Head(s) \in Whitespace THEN trimStart(Tail(s)) ELSE s

RECURSIVE trimEnd(_)
trimEnd(s) ==
    IF s # <<>> /\ s[Len(s)] \in Whitespace
      THEN trimEnd(SubSeq(s, 1, Len(s) - 1))
      ELSE s

trim(s) == trimEnd(trimStart(s))

endsWith(s, suffix) ==
    /\ Len(s) >= Len(suffix)
    /\ SubSeq(s, Len(s) - Len(suffix) + 1, Len(s)) = suffix

\* '> '.repeat(depth)
RECURSIVE quotePrefix(_)
quotePrefix(depth) ==
    IF depth = 0 THEN <<>> ELSE <<">", " ">> \o quotePrefix(depth - 1)

\* content.replace(/(^|\n)(?=[^\n])/g, `$1${prefix}`), from position i on
RECURSIVE prefixLinesFrom(_, _, _)
prefixLinesFrom(s, i, prefix) ==
    IF i > Len(s) THEN <<>>
    ELSE (IF (i = 1 \/ s[i - 1] = "\n") /\ s[i] # "\n" THEN prefix ELSE <<>>)
         \o <<s[i]>> \o prefixLinesFrom(s, i + 1, prefix)

\* The tag names htmlparser2 hands over, lower-cased.
tagToLowerCase(name) ==
    CASE name = "P" -> "p"
      [] name = "A" -> "a"
      [] name = "H1" -> "h1"
      [] OTHER -> name

SKIP_TAGS ==
    {"template", "script", "style", "img", "svg", "nav", "footer", "header",
     "head", "button", "form", "input", "textarea", "select"}

HIDDEN_CLASS_SNIPPETS == {"hide", "sr-only", "d-none", "toc"}

\* className.includes(snippet), for the class names of the documents.
classIncludes(className, snippet) ==
    \/ className = snippet
    \/ className = "toc-list" /\ snippet = "toc"
    \/ className = "d-none d-md-block" /\ snippet = "d-none"

\* attribs maps the attribute names of the tag to their values.
hasHiddenAttributes(attribs) ==
    IF "hidden" \in DOMAIN attribs THEN TRUE
    ELSE IF "aria-hidden" \in DOMAIN attribs /\ attribs["aria-hidden"] # "false"
      THEN TRUE
    ELSE IF "type" \in DOMAIN attribs /\ attribs["type"] = "button" THEN TRUE
    ELSE IF "class" \in DOMAIN attribs /\ attribs["class"] # ""
      THEN \E snippet \in HIDDEN_CLASS_SNIPPETS :
               classIncludes(attribs["class"], snippet)
    ELSE FALSE

Headings == {"h1", "h2", "h3", "h4", "h5", "h6"}

\* '#'.repeat(level) for the tags h1..h6
headingPrefix(tag) ==
    CASE tag = "h1" -> <<"#">>
      [] tag = "h2" -> <<"#", "#">>
      [] tag = "h3" -> <<"#", "#", "#">>
      [] tag = "h4" -> <<"#", "#", "#", "#">>
      [] tag = "h5" -> <<"#", "#", "#", "#", "#">>
      [] tag = "h6" -> <<"#", "#", "#", "#", "#", "#">>
      [] OTHER -> <<>>

\* index.toString() followed by '. ', for the indexes the documents reach
listMarker(index) ==
    <<CASE index = 1 -> "1" [] index = 2 -> "2" [] OTHER -> "3", ".", " ">>

\* A StackEntry; the optional fields hold FALSE, <<>> or -1 when absent.
NewEntry(tag, skip) ==
    [tag |-> tag, skip |-> skip, preserveWhitespace |-> FALSE,
     formattingSuffix |-> <<>>, block |-> FALSE, anchorStart |-> -1,
     anchorHref |-> <<>>, blockquote |-> FALSE]

\* The locals of htmlToMarkdownStream before the first chunk.
NewFormatter ==
    [buffer |-> <<>>, outputQueue |-> <<>>, stack |-> <<>>, listStack |-> <<>>,
     skipDepth |-> 0, lastChar |-> "\n"]

getBlockquoteDepth(m) ==
    Cardinality({i \in 1..Len(m.stack) : m.stack[i].blockquote})

canFlush(m) ==
    /\ m.skipDepth = 0
    /\ ~\E i \in 1..Len(m.stack) :
           m.stack[i].anchorHref # <<>> /\ m.stack[i].anchorStart # -1

pushOutput(m, force, chunkSize) ==
    IF m.buffer = <<>> THEN m
    ELSE IF force \/ (Len(m.buffer) >= chunkSize /\ canFlush(m))
      THEN [m EXCEPT !.outputQueue = Append(@, m.buffer),
                     !.buffer = <<>>,
                     !.lastChar = "\n"]
    ELSE m

\* ensureNewline(count), from iteration i on
RECURSIVE ensureNewlineFrom(_, _, _)
ensureNewlineFrom(m, i, count) ==
    IF i >= count THEN m
    ELSE ensureNewlineFrom(
             IF m.lastChar # "\n"
               THEN [m EXCEPT !.buffer = Append(@, "\n"), !.lastChar = "\n"]
             ELSE IF i = 0 THEN [m EXCEPT !.buffer = Append(@, "\n")]
             ELSE m,
             i + 1, count)

ensureNewline(m) == ensureNewlineFrom(m, 0, 1)

ensureDoubleNewline(m) ==
    IF m.buffer = <<>> THEN m
    ELSE IF endsWith(m.buffer, <<"\n", "\n">>) THEN m
    ELSE IF endsWith(m.buffer, <<"\n">>)
      THEN [m EXCEPT !.buffer = Append(@, "\n"), !.lastChar = "\n"]
    ELSE [m EXCEPT !.buffer = @ \o <<"\n", "\n">>, !.lastChar = "\n"]

\* The end of append: the blockquote prefix, then the buffer and lastChar.
appendContent(m, content) ==
    LET depth == getBlockquoteDepth(m)
        quoted == IF depth > 0
                    THEN prefixLinesFrom(content, 1, quotePrefix(depth))
                    ELSE content
        buffer == m.buffer \o quoted
    IN [m EXCEPT !.buffer = buffer,
                 !.lastChar = IF buffer = <<>> THEN @ ELSE buffer[Len(buffer)]]

append(m, text, preserveWhitespace) ==
    IF text = <<>> THEN m
    ELSE IF preserveWhitespace THEN appendContent(m, text)
    ELSE LET collapsed == collapseWhitespace(text)
             afterNewline == IF m.lastChar = "\n" THEN trimStart(collapsed)
                             ELSE collapsed
             afterSpace == IF m.lastChar = " " THEN trimStart(afterNewline)
                           ELSE afterNewline
             content == IF endsWith(afterSpace, <<" ">>) THEN trimEnd(afterSpace)
                        ELSE afterSpace
         IN IF trim(collapsed) = <<>>
              THEN IF m.lastChar # " " /\ m.lastChar # "\n"
                     THEN [m EXCEPT !.buffer = Append(@, " "), !.lastChar = " "]
                     ELSE m
              ELSE appendContent(m, content)

BlockContainers == {"p", "div", "section", "article", "main", "aside"}

\* The switch of onopentag: the formatter and the entry it leaves.
openContentTag(m, tag, attribs) ==
    LET entry == NewEntry(tag, FALSE)
    IN CASE tag \in BlockContainers ->
              [m |-> ensureDoubleNewline(m), entry |-> [entry EXCEPT !.block = TRUE]]
         [] tag = "br" ->
              [m |-> ensureNewline(m), entry |-> entry]
         [] tag = "hr" ->
              [m |-> ensureDoubleNewline(
                         append(ensureDoubleNewline(m), <<"-", "-", "-">>, FALSE)),
               entry |-> entry]
         [] tag \in Headings ->
              [m |-> append(ensureDoubleNewline(m),
                            headingPrefix(tag) \o <<" ">>, TRUE),
               entry |-> [entry EXCEPT !.block = TRUE]]
         [] tag \in {"strong", "b"} ->
              [m |-> append(m, <<"*", "*">>, TRUE),
               entry |-> [entry EXCEPT !.formattingSuffix = <<"*", "*">>]]
         [] tag \in {"em", "i"} ->
              [m |-> append(m, <<"_">>, TRUE),
               entry |-> [entry EXCEPT !.formattingSuffix = <<"_">>]]
         [] tag = "code" ->
              [m |-> append(m, <<Backtick>>, TRUE),
               entry |-> [entry EXCEPT !.preserveWhitespace = TRUE,
                                       !.formattingSuffix = <<Backtick>>]]
         [] tag = "pre" ->
              [m |-> append(ensureDoubleNewline(m), <<Backtick, Backtick, Backtick, "\n">>, TRUE),
               entry |-> [entry EXCEPT !.preserveWhitespace = TRUE,
                                       !.formattingSuffix = <<"\n", Backtick, Backtick, Backtick>>,
                                       !.block = TRUE]]
         [] tag = "blockquote" ->
              [m |-> ensureDoubleNewline(m),
               entry |-> [entry EXCEPT !.blockquote = TRUE, !.block = TRUE]]
         [] tag \in {"ul", "ol"} ->
              [m |-> [ensureDoubleNewline(m) EXCEPT
                          !.listStack = Append(@, [type |-> tag, index |-> 0])],
               entry |-> [entry EXCEPT !.block = TRUE]]
         [] tag = "li" ->
              LET n == Len(m.listStack)
                  ordered == n > 0 /\ m.listStack[n].type = "ol"
                  counted == IF ordered
                               THEN [m EXCEPT !.listStack[n].index = @ + 1]
                               ELSE m
                  broken == ensureNewline(counted)
              IN [m |-> IF ordered
                          THEN append(broken, listMarker(broken.listStack[n].index), TRUE)
                          ELSE append(broken, <<"-", " ">>, TRUE),
                  entry |-> [entry EXCEPT !.block = TRUE]]
         [] tag = "a" ->
              [m |-> m,
               entry |-> [entry EXCEPT
                             !.anchorStart = Len(m.buffer),
                             !.anchorHref = IF "href" \in DOMAIN attribs
                                              THEN attribs["href"] ELSE <<>>]]
         [] OTHER ->
              [m |-> m, entry |-> entry]

\* The parser callbacks, past their check of the signal.
\* onopentag that pushes no frame for an element it skips.
onopentagSkipNotPushed(m, name, attribs) ==
    LET tag == tagToLowerCase(name)
    IN IF m.skipDepth > 0 \/ tag \in SKIP_TAGS \/ hasHiddenAttributes(attribs)
         THEN [m EXCEPT !.skipDepth = @ + 1]
         ELSE LET opened == openContentTag(m, tag, attribs)
              IN [opened.m EXCEPT !.stack = Append(@, opened.entry)]

onopentag(m, name, attribs) ==
    LET tag == tagToLowerCase(name)
    IN IF m.skipDepth > 0 \/ tag \in SKIP_TAGS \/ hasHiddenAttributes(attribs)
         THEN [m EXCEPT !.skipDepth = @ + 1,
                        !.stack = Append(@, NewEntry(tag, TRUE))]
         ELSE LET opened == openContentTag(m, tag, attribs)
              IN [opened.m EXCEPT !.stack = Append(@, opened.entry)]

ontext(m, text, chunkSize) ==
    IF m.skipDepth > 0 THEN m
    ELSE pushOutput(
             append(m, text, \E i \in 1..Len(m.stack) : m.stack[i].preserveWhitespace),
             FALSE, chunkSize)

\* Math.max(0, skipDepth - 1)
DecrementSkipDepth(skipDepth) == IF skipDepth - 1 > 0 THEN skipDepth - 1 ELSE 0

onclosetag(m, name, chunkSize) ==
    IF m.stack = <<>> THEN m
    ELSE LET entry == m.stack[Len(m.stack)]
             popped == [m EXCEPT !.stack = SubSeq(@, 1, Len(@) - 1)]
             anchorContent == trim(SubSeq(popped.buffer, entry.anchorStart + 1,
                                          Len(popped.buffer)))
             cut == [popped EXCEPT !.buffer = SubSeq(@, 1, entry.anchorStart)]
             linked ==
                 IF entry.anchorHref # <<>> /\ entry.anchorStart # -1
                   THEN IF anchorContent # <<>>
                          THEN append(cut, <<"[">> \o anchorContent \o <<"]", "(">>
                                           \o entry.anchorHref \o <<")">>, TRUE)
                          ELSE cut
                   ELSE popped
             suffixed == IF entry.formattingSuffix # <<>>
                           THEN append(linked, entry.formattingSuffix, TRUE)
                           ELSE linked
             listed == IF entry.tag \in {"ul", "ol"}
                         THEN ensureDoubleNewline(
                                  [suffixed EXCEPT !.listStack =
                                       IF @ = <<>> THEN @ ELSE SubSeq(@, 1, Len(@) - 1)])
                         ELSE suffixed
             itemised == IF entry.tag = "li" THEN ensureNewline(listed) ELSE listed
             fenced == IF entry.tag = "pre" THEN ensureDoubleNewline(itemised)
                       ELSE itemised
         IN IF entry.skip
              THEN [popped EXCEPT !.skipDepth = DecrementSkipDepth(@)]
              ELSE pushOutput(fenced, FALSE, chunkSize)

(***************************************************************************)
(* The documents fed to htmlToMarkdownStream, and the events the parser    *)
(* makes of them.  A document is a sequence of items: an open tag, a close *)
(* tag, or one character of text; len is the item's length in characters.  *)
(***************************************************************************)
NoAttribs == [a \in {} |-> <<>>]

Open(name, attribs, len) ==
    [kind |-> "open", name |-> name, attribs |-> attribs, ch |-> "", len |-> len]

Close(name, len) ==
    [kind |-> "close", name |-> name, attribs |-> NoAttribs, ch |-> "", len |-> len]

RECURSIVE Text(_)
Text(s) ==
    IF s = <<>> THEN <<>>
    ELSE <<[kind |-> "text", name |-> "", attribs |-> NoAttribs,
            ch |-> Head(s), len |-> 1]>> \o Text(Tail(s))

HrefX == <<"h", "t", "t", "p", "s", ":", "/", "/", "x">>

\* <h1>Title</h1><p>Hello <a href="https://x">world</a></p>
ScenarioDocument ==
    <<Open("h1", NoAttribs, 4)>> \o Text(<<"T", "i", "t", "l", "e">>)
    \o <<Close("h1", 5), Open("p", NoAttribs, 3)>>
    \o Text(<<"H", "e", "l", "l", "o", " ">>)
    \o <<Open("a", [href |-> HrefX], 20)>> \o Text(<<"w", "o", "r", "l", "d">>)
    \o <<Close("a", 4), Close("p", 4)>>

NDocs == 9

Document(d) ==
    CASE d = 1 -> ScenarioDocument
      \* <p>a b</p>
      [] d = 2 -> <<Open("p", NoAttribs, 3)>> \o Text(<<"a", " ", "b">>)
                  \o <<Close("p", 4)>>
      \* <ol><li>a</li><li>b</li></ol>c
      [] d = 3 -> <<Open("ol", NoAttribs, 4), Open("li", NoAttribs, 4)>>
                  \o Text(<<"a">>)
                  \o <<Close("li", 5), Open("li", NoAttribs, 4)>> \o Text(<<"b">>)
                  \o <<Close("li", 5), Close("ol", 5)>> \o Text(<<"c">>)
      \* <blockquote>a<br>b</blockquote>
      [] d = 4 -> <<Open("blockquote", NoAttribs, 12)>> \o Text(<<"a">>)
                  \o <<Open("br", NoAttribs, 4)>> \o Text(<<"b">>)
                  \o <<Close("blockquote", 13)>>
      \* <script>x</script><div class="toc-list">y</div><pre>a  b</pre>
      [] d = 5 -> <<Open("script", NoAttribs, 8)>> \o Text(<<"x">>)
                  \o <<Close("script", 9), Open("div", [class |-> "toc-list"], 22)>>
                  \o Text(<<"y">>)
                  \o <<Close("div", 6), Open("pre", NoAttribs, 5)>>
                  \o Text(<<"a", " ", " ", "b">>) \o <<Close("pre", 6)>>
      \* <p>one two</p><p>six</p>
      [] d = 6 -> <<Open("p", NoAttribs, 3)>>
                  \o Text(<<"o", "n", "e", " ", "t", "w", "o">>)
                  \o <<Close("p", 4), Open("p", NoAttribs, 3)>>
                  \o Text(<<"s", "i", "x">>) \o <<Close("p", 4)>>
      \* a <b>b c   (the b element is left open)
      [] d = 7 -> Text(<<"a", " ">>) \o <<Open("b", NoAttribs, 3)>>
                  \o Text(<<"b", " ", "c">>)
      \* <ul><li><em>a</em> <code>b</code></li></ul><hr>
      [] d = 8 -> <<Open("ul", NoAttribs, 4), Open("li", NoAttribs, 4),
                    Open("em", NoAttribs, 4)>> \o Text(<<"a">>)
                  \o <<Close("em", 5)>> \o Text(<<" ">>)
                  \o <<Open("code", NoAttribs, 6)>> \o Text(<<"b">>)
                  \o <<Close("code", 7), Close("li", 5), Close("ul", 5),
                       Open("hr", NoAttribs, 4)>>
      \* <ul><li>a</b><nav>x</i>y</nav>b</li></ul>   (</b> and </i> match
      \* no open element)
      [] OTHER -> <<Open("ul", NoAttribs, 4), Open("li", NoAttribs, 4)>>
                  \o Text(<<"a">>)
                  \o <<Close("b", 4), Open("nav", NoAttribs, 5)>> \o Text(<<"x">>)
                  \o <<Close("i", 4)>> \o Text(<<"y">>)
                  \o <<Close("nav", 6)>> \o Text(<<"b">>)
                  \o <<Close("li", 5), Close("ul", 5)>>

\* The number of characters of the first j items.
RECURSIVE OffsetAfter(_, _)
OffsetAfter(items, j) ==
    IF j = 0 THEN 0 ELSE OffsetAfter(items, j - 1) + items[j].len

TotalLength(items) == OffsetAfter(items, Len(items))

\* The elements the parser closes as soon as they are opened.
VoidElements == {"br", "hr", "img", "input"}

\* The index of the innermost open element called `name`, 0 when none is.
LastIndexOf(open, name) ==
    LET at == {i \in 1..Len(open) : open[i] = name}
    IN IF at = {} THEN 0 ELSE CHOOSE i \in at : \A j \in at : j <= i

\* The parser's stack of open elements, outermost first, after `items`
\* were written to a parser that held `open`: an open tag that is not a void
\* element is pushed; a close tag pops down to and including the innermost
\* open element of its name, and pops nothing when no open element has it.
RECURSIVE ParserStack(_, _)
ParserStack(open, items) ==
    IF items = <<>> THEN open
    ELSE LET item == Head(items)
             at == LastIndexOf(open, item.name)
         IN ParserStack(
                CASE item.kind = "open" /\ item.name \notin VoidElements ->
                       Append(open, item.name)
                  [] item.kind = "close" /\ at > 0 -> SubSeq(open, 1, at - 1)
                  [] OTHER -> open,
                Tail(items))

\* The close-tag events for the elements of `open` from the innermost down
\* to the one at index `at`.
RECURSIVE CloseDownTo(_, _)
CloseDownTo(open, at) ==
    IF Len(open) < at \/ at = 0 THEN <<>>
    ELSE <<[on |-> "closetag", name |-> open[Len(open)], attribs |-> NoAttribs,
            text |-> <<>>]>> \o CloseDownTo(SubSeq(open, 1, Len(open) - 1), at)

\* The events the parser, holding the open elements `open`, emits for the
\* items completed within one write: a callback for each open tag (two for a
\* void element); for a close tag a close-tag event for each element it pops
\* and none when it matches no open element; and one ontext for each run of
\* text, which ends at a tag or where the chunk ends.
RECURSIVE EventsFrom(_, _)
EventsFrom(open, items) ==
    IF items = <<>> THEN <<>>
    ELSE LET item == Head(items)
             rest == EventsFrom(ParserStack(open, <<item>>), Tail(items))
         IN CASE item.kind = "open" /\ item.name \in VoidElements ->
                   <<[on |-> "opentag", name |-> item.name, attribs |-> item.attribs,
                      text |-> <<>>],
                     [on |-> "closetag", name |-> item.name, attribs |-> NoAttribs,
                      text |-> <<>>]>> \o rest
              [] item.kind = "open" ->
                   <<[on |-> "opentag", name |-> item.name, attribs |-> item.attribs,
                      text |-> <<>>]>> \o rest
              [] item.kind = "close" ->
                   CloseDownTo(open, LastIndexOf(open, item.name)) \o rest
              [] OTHER ->
                   IF Len(items) > 1 /\ items[2].kind = "text"
                     THEN <<[rest[1] EXCEPT !.text = <<item.ch>> \o @]>> \o Tail(rest)
                     ELSE <<[on |-> "text", name |-> "", attribs |-> NoAttribs,
                             text |-> <<item.ch>>]>> \o rest

\* The events for a whole document written to a new parser.
Events(items) == EventsFrom(<<>>, items)

\* parser.write(chunk): the callbacks run in the order of the events.
RECURSIVE parserWrite(_, _, _)
parserWrite(m, events, chunkSize) ==
    IF events = <<>> THEN m
    ELSE LET e == Head(events)
         IN parserWrite(
                CASE e.on = "opentag" -> onopentag(m, e.name, e.attribs)
                  [] e.on = "closetag" -> onclosetag(m, e.name, chunkSize)
                  [] OTHER -> ontext(m, e.text, chunkSize),
                Tail(events), chunkSize)

\* parser.end(): a close-tag event for each element still open, innermost
\* first.
RECURSIVE parserEnd(_, _)
parserEnd(m, chunkSize) ==
    IF m.stack = <<>> THEN m
    ELSE parserEnd(onclosetag(m, m.stack[Len(m.stack)].tag, chunkSize), chunkSize)

\* With the signal aborted, the first callback that parser.end() makes calls
\* parser.end() again: the parser, already ended, reports ".end() after done!"
\* to onerror, which throws.
parserEndThrows(m, aborted) == aborted /\ m.stack # <<>>

RECURSIVE Flatten(_)
Flatten(chunks) ==
    IF chunks = <<>> THEN <<>> ELSE Head(chunks) \o Flatten(Tail(chunks))

\* htmlToMarkdownString over a source that yields the document as one chunk.
htmlToMarkdownString(items, chunkSize) ==
    LET written == parserWrite(NewFormatter, Events(items), chunkSize)
        ended == pushOutput(parserEnd(written, chunkSize), TRUE, chunkSize)
    IN Flatten(ended.outputQueue)

\* htmlToMarkdownStream has been called and has not yet asked for a chunk.
FormatterCalled ==
    /\ md = NewFormatter
    /\ mdOut = [chunks |-> <<>>, status |-> "running"]
    /\ mdIn.fed = 0
    /\ mdIn.done = 0
    /\ mdIn.aborted = FALSE

\* The last item of the document that lies within the first `fed` characters.
CompletedUpTo(items, fed) ==
    LET within == {j \in 0..Len(items) : OffsetAfter(items, j) <= fed}
    IN CHOOSE j \in within : \A i \in within : i <= j

Running == mdOut.status = "running"

\* One round of the `for await` loop: the source yields the next k characters
\* of the document; the signal is checked, the chunk is written to the parser
\* and the output queue is drained to the consumer.
WriteChunk(k) ==
    LET items == Document(mdIn.doc)
        total == TotalLength(items)
        fed == IF mdIn.fed + k > total THEN total ELSE mdIn.fed + k
        done == CompletedUpTo(items, fed)
        written == parserWrite(md,
                               EventsFrom(ParserStack(<<>>, SubSeq(items, 1, mdIn.done)),
                                          SubSeq(items, mdIn.done + 1, done)),
                               mdIn.chunkSize)
    IN /\ Running
       /\ mdIn.fed < total
       /\ CASE mdIn.piece = 0 -> k \in 1..MaxPiece
            [] mdIn.piece = -1 -> k = total
            [] OTHER -> k = mdIn.piece
       /\ IF mdIn.aborted
            THEN /\ mdOut' = [mdOut EXCEPT !.status = "Markdown streaming aborted"]
                 /\ UNCHANGED <<md, mdIn>>
            ELSE /\ mdIn' = [mdIn EXCEPT !.fed = fed, !.done = done]
                 /\ md' = [written EXCEPT !.outputQueue = <<>>]
                 /\ mdOut' = [mdOut EXCEPT !.chunks = @ \o written.outputQueue]
       /\ UNCHANGED notMD

\* The source is exhausted: parser.end(), pushOutput(true), the queue is
\* drained and the generator returns.  The signal is not looked at here,
\* except by the callbacks that parser.end() makes.
SourceEnds ==
    LET items == Document(mdIn.doc)
        ended == pushOutput(parserEnd(md, mdIn.chunkSize), TRUE, mdIn.chunkSize)
    IN /\ Running
       /\ mdIn.fed = TotalLength(items)
       /\ IF parserEndThrows(md, mdIn.aborted)
            THEN /\ mdOut' = [mdOut EXCEPT !.status = "Failed to parse HTML stream"]
                 /\ UNCHANGED md
            ELSE /\ md' = [ended EXCEPT !.outputQueue = <<>>]
                 /\ mdOut' = [chunks |-> mdOut.chunks \o ended.outputQueue
                                           \o (IF ended.buffer # <<>>
                                                 THEN <<ended.buffer>> ELSE <<>>),
                              status |-> "done"]
       /\ UNCHANGED <<mdIn, notMD>>

\* The source throws: the error is wrapped in an ExtractError.
SourceFails ==
    /\ Running
    /\ mdOut' = [mdOut EXCEPT !.status = "Failed to convert HTML stream to Markdown"]
    /\ UNCHANGED <<md, mdIn, notMD>>

\* options.signal is aborted while the generator waits for its source or for
\* its consumer.
SignalAborts ==
    /\ Running
    /\ ~mdIn.aborted
    /\ mdIn' = [mdIn EXCEPT !.aborted = TRUE]
    /\ UNCHANGED <<md, mdOut, notMD>>

NextMD ==
    \/ \E k \in 1..MaxDocLength : WriteChunk(k)
    \/ SourceEnds
    \/ SourceFails
    \/ SignalAborts

(***************************************************************************)
(* extractStream (utils/extract-stream): the events of the parser are      *)
(* filtered into htmlChunks; an element is removed, with all it contains,  *)
(* for its tag name or for its attributes.                                 *)
(***************************************************************************)
NPages == 6

\* The documents fed to extractStream.
Page(d) ==
      \* <p>Hi <a href="https://x">w</a></p>
    CASE d = 1 -> <<Open("p", NoAttribs, 3)>> \o Text(<<"H", "i", " ">>)
                  \o <<Open("a", [href |-> HrefX], 20)>> \o Text(<<"w">>)
                  \o <<Close("a", 4), Close("p", 4)>>
      \* <script>x</script><div class="toc-list">y</div><pre>a  b</pre>
      [] d = 2 -> Document(5)
      \* <p>a</p><nav>x<div>y</div><img></nav><p>b</p>
      [] d = 3 -> <<Open("p", NoAttribs, 3)>> \o Text(<<"a">>)
                  \o <<Close("p", 4), Open("nav", NoAttribs, 5)>> \o Text(<<"x">>)
                  \o <<Open("div", NoAttribs, 5)>> \o Text(<<"y">>)
                  \o <<Close("div", 6), Open("img", NoAttribs, 5), Close("nav", 6),
                       Open("p", NoAttribs, 3)>> \o Text(<<"b">>)
                  \o <<Close("p", 4)>>
      \* <div hidden>x</div><p>b</p>
      [] d = 4 -> <<Open("div", [hidden |-> ""], 12)>> \o Text(<<"x">>)
                  \o <<Close("div", 6), Open("p", NoAttribs, 3)>> \o Text(<<"b">>)
                  \o <<Close("p", 4)>>
      \* <nav>x<hide-x><b>y</b></hide-x>z</nav>
      [] d = 5 -> <<Open("nav", NoAttribs, 5)>> \o Text(<<"x">>)
                  \o <<Open("hide-x", NoAttribs, 8), Open("b", NoAttribs, 3)>>
                  \o Text(<<"y">>)
                  \o <<Close("b", 4), Close("hide-x", 9)>> \o Text(<<"z">>)
                  \o <<Close("nav", 6)>>
      \* <p>a<span class="sr-only">x</span>b</p>
      [] OTHER -> <<Open("p", NoAttribs, 3)>> \o Text(<<"a">>)
                  \o <<Open("span", [class |-> "sr-only"], 22)>> \o Text(<<"x">>)
                  \o <<Close("span", 7)>> \o Text(<<"b">>)
                  \o <<Close("p", 4)>>

nodesToRemove ==
    {"template", "img", "svg", "nav", "footer", "header", "head", "button", "form",
     "input", "textarea", "select", "script", "style"}

\* The test onopentag makes of the attributes of a tag.
hiddenAttribs(attribs) ==
    \/ "hidden" \in DOMAIN attribs
    \/ "aria-hidden" \in DOMAIN attribs
    \/ ("type" \in DOMAIN attribs /\ attribs["type"] = "button")
    \/ /\ "class" \in DOMAIN attribs
       /\ \E snippet \in {"hide", "sr-only", "d-none", "toc"} :
              classIncludes(attribs["class"], snippet)

\* currentTag.includes(snippet), for the tag names of the documents.
tagIncludes(tag, snippet) == tag = "hide-x" /\ snippet = "hide"

\* htmlChunks.length > 100
FlushParts == 100

\* The callbacks of extractStream, past their check of the signal; x holds
\* inRemovableTag, tagStack and htmlChunks.
extractOnopentag(x, name, attribs) ==
    LET pushed == [x EXCEPT !.tagStack = Append(@, name)]
        href == IF name = "a" /\ "href" \in DOMAIN attribs /\ attribs["href"] # <<>>
                  THEN <<" href=\"">> \o attribs["href"] \o <<"\"">>
                  ELSE <<>>
    IN IF tagToLowerCase(name) \in nodesToRemove \/ hiddenAttribs(attribs)
         THEN [pushed EXCEPT !.inRemovableTag = @ + 1]
         ELSE IF x.inRemovableTag = 0
           THEN [pushed EXCEPT !.htmlChunks = Append(@, <<"<", name>> \o href \o <<">">>)]
           ELSE pushed

extractOntext(x, text) ==
    IF x.inRemovableTag = 0 /\ trim(text) # <<>>
      THEN [x EXCEPT !.htmlChunks = Append(@, text)]
      ELSE x

extractOnclosetag(x, name) ==
    LET n == Len(x.tagStack)
        \* tagStack.pop(), pushed back when it is not `name`
        popped == IF n > 0 /\ x.tagStack[n] = name
                    THEN [x EXCEPT !.tagStack = SubSeq(@, 1, n - 1)]
                    ELSE x
        m == Len(popped.tagStack)
        decremented == [popped EXCEPT !.inRemovableTag = IF @ > 0 THEN @ - 1 ELSE 0]
    IN IF tagToLowerCase(name) \in nodesToRemove THEN decremented
       ELSE IF /\ m > 0
               /\ \E snippet \in {"hide", "sr-only", "d-none"} :
                      tagIncludes(popped.tagStack[m], snippet)
         THEN decremented
       ELSE IF x.inRemovableTag = 0
         THEN [popped EXCEPT !.htmlChunks = Append(@, <<"</", name, ">">>)]
       ELSE popped

\* The parser's open elements after an event: an element is opened by its
\* open-tag event and closed, innermost first, by its close-tag event.
parserOpen(open, e) ==
    CASE e.on = "opentag" -> Append(open, [name |-> e.name, attribs |-> e.attribs])
      [] e.on = "closetag" -> SubSeq(open, 1, Len(open) - 1)
      [] OTHER -> open

\* parser.write(chunk) and parser.end(): the callbacks run in the order of
\* the events.
RECURSIVE extractWrite(_, _)
extractWrite(x, events) ==
    IF events = <<>> THEN x
    ELSE LET e == Head(events)
             called == CASE e.on = "opentag" -> extractOnopentag(x, e.name, e.attribs)
                         [] e.on = "closetag" -> extractOnclosetag(x, e.name)
                         [] OTHER -> extractOntext(x, e.text)
         IN extractWrite([called EXCEPT !.open = parserOpen(@, e)], Tail(events))

\* extractStream has been called and has not yet asked for a chunk.
ExtractorCalled ==
    /\ xs.fed = 0
    /\ xs.done = 0
    /\ xs.aborted = FALSE
    /\ xs.inRemovableTag = 0
    /\ xs.tagStack = <<>>
    /\ xs.htmlChunks = <<>>
    /\ xs.open = <<>>
    /\ xs.yielded = <<>>
    /\ xs.status = "running"

Extracting == xs.status = "running"

\* One round of the `for await` loop: the source yields the next k characters
\* of the document; the signal is checked, the chunk is written to the parser
\* and htmlChunks is yielded once it holds more than 100 parts.
ExtractChunk(k) ==
    LET items == Page(xs.doc)
        total == TotalLength(items)
        fed == IF xs.fed + k > total THEN total ELSE xs.fed + k
        done == CompletedUpTo(items, fed)
        written == extractWrite(xs,
                                EventsFrom(ParserStack(<<>>, SubSeq(items, 1, xs.done)),
                                           SubSeq(items, xs.done + 1, done)))
    IN /\ Extracting
       /\ xs.fed < total
       /\ CASE xs.piece = 0 -> k \in 1..MaxPiece
            [] xs.piece = -1 -> k = total
            [] OTHER -> k = xs.piece
       /\ xs' = IF xs.aborted
                  THEN [xs EXCEPT !.status = "Extraction aborted"]
                  ELSE IF Len(written.htmlChunks) > FlushParts
                    THEN [written EXCEPT !.fed = fed, !.done = done,
                                         !.yielded = Append(@, Flatten(written.htmlChunks)),
                                         !.htmlChunks = <<>>]
                    ELSE [written EXCEPT !.fed = fed, !.done = done]
       /\ UNCHANGED notXS

\* The source is exhausted: parser.end() closes the elements still open,
\* what htmlChunks holds is yielded and the generator returns.  With the
\* signal aborted the callbacks parser.end() makes return at once.
ExtractEnds ==
    LET names == [i \in 1..Len(xs.open) |-> xs.open[i].name]
        closed == extractWrite(xs, CloseDownTo(names, 1))
        ended == IF xs.aborted THEN [xs EXCEPT !.open = <<>>] ELSE closed
    IN /\ Extracting
       /\ xs.fed = TotalLength(Page(xs.doc))
       /\ xs' = [ended EXCEPT !.yielded = IF ended.htmlChunks # <<>>
                                            THEN Append(@, Flatten(ended.htmlChunks))
                                            ELSE @,
                              !.status = "done"]
       /\ UNCHANGED notXS

\* The source throws: the error is wrapped in an ExtractError.
ExtractSourceFails ==
    /\ Extracting
    /\ xs' = [xs EXCEPT !.status = "Failed to extract content from stream"]
    /\ UNCHANGED notXS

\* signal is aborted while the generator waits for its source or for its
\* consumer.
ExtractSignalAborts ==
    /\ Extracting
    /\ ~xs.aborted
    /\ xs' = [xs EXCEPT !.aborted = TRUE]
    /\ UNCHANGED notXS

NextXS ==
    \/ \E k \in 1..MaxDocLength : ExtractChunk(k)
    \/ ExtractEnds
    \/ ExtractSourceFails
    \/ ExtractSignalAborts

(***************************************************************************)
(* processURLStream (utils/process-url-stream): streamFetch, then          *)
(* htmlToMarkdownString or the collection of the body, with processURL as  *)
(* the buffered path.                                                      *)
(*                                                                         *)
(* pu.pc:  "called"      processURLStream was called                       *)
(*         "streaming"   streamFetch or the consumption of body is pending *)
(*         "processURL"  the fetch of processURL is pending                *)
(*         "returned"    processURLStream resolved                         *)
(*         "rejected"    processURLStream rejected                         *)
(***************************************************************************)
ProcessURLStreamCalled ==
    /\ pu.pc = "called"
    /\ pu.result = "none"
    /\ pu.bufferedCalls = 0

\* processURL: the cached result, or a fetch of the url (without any signal).
processURL(p) ==
    IF p.cached
      THEN [p EXCEPT !.pc = "returned", !.result = "cached"]
      ELSE [p EXCEPT !.pc = "processURL", !.bufferedCalls = @ + 1]

\* The HTML of the response is converted to markdown.
Converting == ~pu.raw /\ pu.html

\* The first statements of processURLStream: the buffered path when streaming
\* is disabled, else the call of streamFetch.
Dispatch ==
    /\ pu.pc = "called"
    /\ pu' = IF pu.enableStreaming THEN [pu EXCEPT !.pc = "streaming"]
             ELSE processURL(pu)
    /\ UNCHANGED notPU
    /\ UNCHANGED sfVars

\* streamFetch rejects: so does processURLStream.
StreamFetchRejects ==
    /\ pu.pc = "streaming"
    /\ sf.pc = "rejected"
    /\ pu' = [pu EXCEPT !.pc = "rejected"]
    /\ UNCHANGED notPU
    /\ UNCHANGED sfVars

\* The consumption of body ends: with its content, or with an error, which
\* the catch block around htmlToMarkdownString answers with processURL.
BodyEnds ==
    /\ pu.pc = "streaming"
    /\ sf.pc = "ended"
    /\ pu' = IF sfSeen.body = "done"
               THEN [pu EXCEPT !.pc = "returned", !.result = "streamed"]
             ELSE IF Converting THEN processURL(pu)
             ELSE [pu EXCEPT !.pc = "rejected"]
    /\ UNCHANGED notPU
    /\ UNCHANGED sfVars

\* The fetch of processURL settles.
ProcessURLSettles(ok) ==
    /\ pu.pc = "processURL"
    /\ pu' = IF ok THEN [pu EXCEPT !.pc = "returned", !.result = "buffered"]
             ELSE [pu EXCEPT !.pc = "rejected"]
    /\ UNCHANGED notPU
    /\ UNCHANGED sfVars

\* htmlToMarkdownStream finds the signal aborted when a chunk arrives.
ConverterSeesAbort ==
    /\ Converting
    /\ sfOptions.signal # "none"
    /\ callerSignal
    /\ sf.pc \in {"yielded", "flushed"}

\* streamFetch or the consumption of its body is pending.
Streaming == pu.pc = "streaming"

\* Besides the steps of processURLStream, those of streamFetch and of its
\* body, consumed by htmlToMarkdownString or by the `for await` loops of
\* processURLStream: the consumer takes every chunk, and leaves only when
\* htmlToMarkdownStream throws.
NextPU ==
    \/ Dispatch
    \/ StreamFetchRejects
    \/ BodyEnds
    \/ \E ok \in BOOLEAN : ProcessURLSettles(ok)
    \/ Streaming /\ OperationStarts
    \/ Streaming /\ FetchRejects
    \/ Streaming /\ \E why \in {"status code", "No response body"} :
                        ResponseUnusable(why)
    \/ Streaming /\ \E chunks \in Bodies, residue \in BOOLEAN :
                        ResponseArrives(chunks, residue)
    \/ Streaming /\ sf.pc \notin {"rejected", "ended"} /\ CallerAborts
    \/ Streaming /\ TimeoutElapses
    \/ Streaming /\ ~ConverterSeesAbort /\ ConsumerPulls
    \/ Streaming /\ ReadDelivers
    \/ Streaming /\ ReadEnds
    \/ Streaming /\ ReadRejects
    \/ Streaming /\ ConverterSeesAbort /\ ConsumerStops

(***************************************************************************)
(* Specifications                                                          *)
(***************************************************************************)
\* The URLs of the breaker's callers when they all call one origin.
OneOrigin == {url \in Urls : getDomain(url) = "a.test"}

\* The configuration of the origin-isolation test and scenario.
IsolationConfig ==
    [failureThreshold |-> 2, cooldownPeriod |-> CooldownTicks, halfOpenMaxAttempts |-> 2]

\* The retry loop is not in use.
RetryIdle ==
    /\ retryConfig = [maxRetries |-> 0, initialDelay |-> 0, maxDelay |-> 0, jitterPct |-> 0]
    /\ script = <<>>
    /\ attempt = 0
    /\ rpc = "idle"
    /\ rCalls = 0
    /\ lastError = NoLastError
    /\ rResult = Pending
    /\ sleeps = 0
    /\ onRetryCalls = 0
    /\ lastOnRetry = [attempt |-> 0, error |-> NoLastError, delay |-> 0]
    /\ delay = 0

\* The breaker is not in use.
BreakerIdle ==
    /\ callerUrls = {}
    /\ cbConfig = IsolationConfig
    /\ FreshBreaker

\* The request manager is not in use.
ManagerIdle ==
    /\ rmConfig = [concurrency |-> 1, timeout |-> 0, intervalCap |-> 0, interval |-> 0]
    /\ FreshManager

\* The error classifier is not in use.
ClassifierIdle ==
    /\ errArg = NoCause
    /\ urlArg = ""
    /\ NothingClassified

\* streamFetch is not in use.
StreamFetchIdle ==
    /\ sfOptions = [url |-> "https://a.test/p1", signal |-> "none", timeout |-> 0]
    /\ StreamFetchCalled

\* htmlToMarkdownStream is not in use.
FormatterIdle ==
    /\ mdIn = [doc |-> 1, chunkSize |-> DefaultChunkSize, piece |-> -1,
               fed |-> 0, done |-> 0, aborted |-> FALSE]
    /\ FormatterCalled

\* extractStream is not in use.
ExtractorIdle ==
    xs = [doc |-> 1, piece |-> -1, fed |-> 0, done |-> 0, aborted |-> FALSE,
          inRemovableTag |-> 0, tagStack |-> <<>>, htmlChunks |-> <<>>,
          open |-> <<>>, yielded |-> <<>>, status |-> "running"]

\* processURLStream is not in use.
ProcessorIdle ==
    pu = [enableStreaming |-> TRUE, raw |-> FALSE, html |-> FALSE, cached |-> FALSE,
          pc |-> "called", result |-> "none", bufferedCalls |-> 0]

\* One origin, every configuration within the bounds.
InitCB ==
    /\ ExtractorIdle
    /\ callerUrls = OneOrigin
    /\ cbConfig \in [failureThreshold : 1..MaxThreshold,
                      cooldownPeriod : {CooldownTicks},
                      halfOpenMaxAttempts : 1..MaxHalfOpen]
    /\ FreshBreaker
    /\ RetryIdle
    /\ ManagerIdle
    /\ ClassifierIdle
    /\ StreamFetchIdle
    /\ FormatterIdle
    /\ ProcessorIdle

SpecCB == InitCB /\ [][NextCB]_vars

\* Two origins.
InitCBIso ==
    /\ ExtractorIdle
    /\ callerUrls = Urls
    /\ cbConfig = IsolationConfig
    /\ FreshBreaker
    /\ RetryIdle
    /\ ManagerIdle
    /\ ClassifierIdle
    /\ StreamFetchIdle
    /\ FormatterIdle
    /\ ProcessorIdle

SpecCBIso == InitCBIso /\ [][NextCB]_vars

\* One call of retryWithBackoff, for every configuration and every behaviour
\* of fn within the bounds.
InitRetry ==
    /\ ExtractorIdle
    /\ retryConfig \in [maxRetries : 0..MaxRetries,
                         initialDelay : {10},
                         maxDelay : {15, 100},
                         jitterPct : {25}]
    /\ script \in [1..(MaxRetries + 2) -> ScriptOutcomes]
    /\ RetryCalled
    /\ BreakerIdle
    /\ ManagerIdle
    /\ ClassifierIdle
    /\ StreamFetchIdle
    /\ FormatterIdle
    /\ ProcessorIdle

SpecRetry == InitRetry /\ [][NextRetry]_vars

\* fn settles, timers fire and the loop runs on.
FairSpecRetry == SpecRetry /\ WF_vars(NextRetry)

\* One RequestManager, for every configuration within the bounds: with and
\* without a per-task timeout, with and without a rate window of 2 admissions.
InitRM ==
    /\ ExtractorIdle
    /\ rmConfig \in [concurrency : 1..MaxConcurrency,
                      timeout : {0, 50},
                      intervalCap : {0, 2},
                      interval : {0, 100}]
    /\ FreshManager
    /\ BreakerIdle
    /\ RetryIdle
    /\ ClassifierIdle
    /\ StreamFetchIdle
    /\ FormatterIdle
    /\ ProcessorIdle

SpecRM == InitRM /\ [][NextRM]_vars

\* Every running operation settles and every rate window ends.
FairSpecRM ==
    /\ SpecRM
    /\ \A t \in Tasks : WF_vars(\E outcome \in {"resolved", "rejected"} : TaskSettles(t, outcome))
    /\ WF_vars(IntervalEnds)

\* One value is classified, for every raw error, HTTP status and FetchError
\* within the bounds, with and without a url.
InitErr ==
    /\ ExtractorIdle
    /\ errArg \in RawErrors \cup HttpResponses \cup GivenFetchErrors
    /\ urlArg \in {"", "https://a.test/p1"}
    /\ NothingClassified
    /\ BreakerIdle
    /\ RetryIdle
    /\ ManagerIdle
    /\ StreamFetchIdle
    /\ FormatterIdle
    /\ ProcessorIdle

SpecErr == InitErr /\ [][NextErr]_vars

\* The breaker after failureThreshold = 2 operations on a.test failed with a
\* retryable error at time 0: the circuit of a.test is OPEN, in its cooldown.
OpenedBreaker ==
    /\ circuits = [d \in Domains |->
                     IF d = "a.test"
                       THEN [state |-> OPEN, failures |-> 2, lastFailureTime |-> 0,
                             halfOpenAttempts |-> 0, successCount |-> 0]
                       ELSE NoCircuit]
    /\ now = 0
    /\ inflight = EmptyBag
    /\ fnCalls = 2
    /\ lastEvent = "SERVER_ERROR_5XX"
    /\ obs = [d \in Domains |->
                IF d = "a.test" THEN [FreshObs EXCEPT !.streak = 2, !.clean = FALSE,
                                                      !.sinceOk = 2, !.net = 2]
                ELSE FreshObs]

\* One call of streamFetch for a url of a.test, with every combination of
\* options, while the breaker is fresh or holds the circuit of a.test OPEN.
InitSF ==
    /\ ExtractorIdle
    /\ sfOptions \in [url : {"https://a.test/p1"},
                       signal : {"none", "fresh", "aborted"},
                       timeout : {0, 500}]
    /\ StreamFetchCalled
    /\ callerUrls = {}
    /\ cbConfig = IsolationConfig
    /\ (FreshBreaker \/ OpenedBreaker)
    /\ RetryIdle
    /\ ManagerIdle
    /\ ClassifierIdle
    /\ FormatterIdle
    /\ ProcessorIdle

SpecSF == InitSF /\ [][NextSF]_vars

\* One call of htmlToMarkdownStream on each document, with a small and the
\* default chunkSize, the source cutting the document at will (piece 0), into
\* pieces of 1 or 3 characters, or not at all (piece -1).
InitMD ==
    /\ ExtractorIdle
    /\ mdIn \in [doc : 1..NDocs, chunkSize : {SmallChunkSize, DefaultChunkSize},
                  piece : {0, 1, 3, -1}, fed : {0}, done : {0}, aborted : {FALSE}]
    /\ FormatterCalled
    /\ callerUrls = {}
    /\ cbConfig = IsolationConfig
    /\ FreshBreaker
    /\ RetryIdle
    /\ ManagerIdle
    /\ ClassifierIdle
    /\ StreamFetchIdle
    /\ ProcessorIdle

SpecMD == InitMD /\ [][NextMD]_vars

\* One call of processURLStream for a url of a.test, raw or not, for an HTML
\* response or another, with streaming enabled or not, the buffered result
\* cached or not, with every combination of signal and stream-timeout.
InitPU ==
    /\ ExtractorIdle
    /\ pu \in [enableStreaming : BOOLEAN, raw : BOOLEAN, html : BOOLEAN,
                cached : BOOLEAN, pc : {"called"}, result : {"none"},
                bufferedCalls : {0}]
    /\ ProcessURLStreamCalled
    /\ sfOptions \in [url : {"https://a.test/p1"},
                       signal : {"none", "fresh", "aborted"},
                       timeout : {0, 500}]
    /\ StreamFetchCalled
    /\ callerUrls = {}
    /\ cbConfig = IsolationConfig
    /\ FreshBreaker
    /\ RetryIdle
    /\ ManagerIdle
    /\ ClassifierIdle
    /\ FormatterIdle

SpecPU == InitPU /\ [][NextPU]_vars

\* One call of extractStream for each document, the source cutting it into
\* pieces of 1 or 3 characters, pieces of any length up to MaxPiece, or not
\* at all.
InitXS ==
    /\ xs \in [doc : 1..NPages, piece : {0, 1, 3, -1}, fed : {0}, done : {0},
               aborted : {FALSE}, inRemovableTag : {0}, tagStack : {<<>>},
               htmlChunks : {<<>>}, open : {<<>>}, yielded : {<<>>},
               status : {"running"}]
    /\ BreakerIdle
    /\ RetryIdle
    /\ ManagerIdle
    /\ ClassifierIdle
    /\ StreamFetchIdle
    /\ FormatterIdle
    /\ ProcessorIdle

SpecXS == InitXS /\ [][NextXS]_vars

(***************************************************************************)
(* Properties of the circuit breaker                                       *)
(***************************************************************************)
\* The circuit of `d` is OPEN and its cooldown, counted from the moment it
\* opened, has not elapsed.
OpenInCooldown(d) ==
    /\ circuits[d] # NoCircuit
    /\ circuits[d].state = OPEN
    /\ now - obs[d].openedAt < cbConfig.cooldownPeriod

\* The execute call of this step was rejected with CIRCUIT_BREAKER_OPEN and
\* did not invoke its operation.
RejectedUninvoked ==
    /\ lastEvent' = "CIRCUIT_BREAKER_OPEN"
    /\ fnCalls' = fnCalls
    /\ inflight' = inflight

\* C1: when the failureThreshold-th consecutive operation failing with a
\* RETRYABLE error (none succeeding in between, counted from a fresh circuit
\* or from the last success) settles, getState of the origin is OPEN; and an
\* execute call on an OPEN circuit made before cooldownPeriod has elapsed is
\* rejected with CIRCUIT_BREAKER_OPEN without invoking its operation.
C1_OpensAtThreshold ==
    [][\A url \in callerUrls :
         LET d == getDomain(url)
         IN  /\ (/\ obs'[d].streak = obs[d].streak + 1
                  /\ obs'[d].streak = cbConfig.failureThreshold)
                 => getState(url)' = OPEN
             /\ (OpenInCooldown(d) /\ Execute(url)) => RejectedUninvoked]_vars

\* C1 witness: exactly failureThreshold = 2 operations were invoked, both
\* failed with a RETRYABLE error, the circuit is OPEN and a third execute call
\* has just been rejected.
C1_Witness ==
    /\ cbConfig.failureThreshold = 2
    /\ obs["a.test"].streak = 2
    /\ fnCalls = 2
    /\ getState("https://a.test/p1") = OPEN
    /\ lastEvent = "CIRCUIT_BREAKER_OPEN"

\* The circuit of `d` exists and is in state `st`.
InState(d, st) == circuits[d] # NoCircuit /\ circuits[d].state = st

\* Some execute call on domain `d` is the step.
ExecuteOn(d) == \E u \in callerUrls : getDomain(u) = d /\ Execute(u)

\* C2: a circuit leaves OPEN for HALF_OPEN only in an execute call arriving at
\* least cooldownPeriod after it opened, and that call is admitted as the
\* first probe; an execute call arriving earlier is rejected without invoking
\* its operation and leaves the circuit OPEN; getState changes nothing.
C2_LazyHalfOpen ==
    [][\A url \in callerUrls :
         LET d == getDomain(url)
         IN  /\ (InState(d, OPEN) /\ InState(d, HALF_OPEN)')
                 => /\ ExecuteOn(d)
                    /\ now - obs[d].openedAt >= cbConfig.cooldownPeriod
                    /\ lastEvent' = "invoked"
                    /\ fnCalls' = fnCalls + 1
                    /\ circuits'[d].halfOpenAttempts = 1
             /\ (OpenInCooldown(d) /\ Execute(url))
                 => RejectedUninvoked /\ InState(d, OPEN)'
             /\ GetState(url) => circuits' = circuits]_vars

\* C2 witness: the cooldown has elapsed and the execute call that found the
\* circuit OPEN has been admitted as the first probe of HALF_OPEN.
C2_Witness ==
    /\ InState("a.test", HALF_OPEN)
    /\ now - obs["a.test"].openedAt >= cbConfig.cooldownPeriod
    /\ circuits["a.test"].halfOpenAttempts = 1
    /\ lastEvent = "invoked"
    /\ \E call \in BagToSet(inflight) : call.probe /\ ~call.detached

\* The operation of `call`, admitted as a probe, resolves in this step while
\* the circuit of its domain is HALF_OPEN.
ProbeSucceeds(call) ==
    /\ call.probe
    /\ ~call.detached
    /\ InState(call.domain, HALF_OPEN)
    /\ Settle(call, Resolved)

\* C3: in HALF_OPEN, when the first admitted probe succeeds the circuit is
\* still HALF_OPEN, and when the second one succeeds it is CLOSED with the
\* failure, probe and success counters at 0.
C3_TwoProbeSuccessesClose ==
    [][\A call \in BagToSet(inflight) :
         ProbeSucceeds(call) =>
           LET d == call.domain
           IN  /\ obs[d].probeSucc = 0 => InState(d, HALF_OPEN)'
               /\ obs[d].probeSucc = 1
                   => /\ InState(d, CLOSED)'
                      /\ circuits'[d].failures = 0
                      /\ circuits'[d].halfOpenAttempts = 0
                      /\ circuits'[d].successCount = 0]_vars

\* The operation of `call`, admitted as a probe, throws `error` in this step
\* while the circuit of its domain is HALF_OPEN.
ProbeFails(call, error) ==
    /\ call.probe
    /\ ~call.detached
    /\ InState(call.domain, HALF_OPEN)
    /\ Settle(call, Threw(error))

\* The circuit of `d` is OPEN after the step with its cooldown starting now.
ReopenedNow(d) ==
    /\ InState(d, OPEN)'
    /\ circuits'[d].lastFailureTime = now
    /\ obs'[d].openedAt = now

\* C4 as claimed: in HALF_OPEN any failure of an admitted probe, whatever the
\* error, moves the circuit to OPEN and restarts the cooldown.
C4_AnyProbeFailureReopens ==
    [][\A call \in BagToSet(inflight), outcome \in Outcomes :
         (~outcome.ok /\ ProbeFails(call, outcome.error)) => ReopenedNow(call.domain)]_vars

\* C4 amended: in HALF_OPEN a failure of an admitted probe with a RETRYABLE
\* error (a non-FetchError counts as one) moves the circuit to OPEN and
\* restarts the cooldown at the time of the failure; execute calls are then
\* rejected until cooldownPeriod has elapsed.
C4_RetryableProbeFailureReopens ==
    [][/\ \A call \in BagToSet(inflight), outcome \in Outcomes :
            (/\ ~outcome.ok
             /\ wrapError(outcome.error).type = RETRYABLE
             /\ ProbeFails(call, outcome.error)) => ReopenedNow(call.domain)
       /\ \A url \in callerUrls :
            (OpenInCooldown(getDomain(url)) /\ Execute(url)) => RejectedUninvoked]_vars

\* C4 witness: a probe has just failed with a RETRYABLE error, the circuit
\* is OPEN again and its cooldown starts now, later than the first opening.
C4_Witness ==
    /\ InState("a.test", OPEN)
    /\ lastEvent = "SERVER_ERROR_5XX"
    /\ obs["a.test"].probes > 0
    /\ circuits["a.test"].lastFailureTime = now
    /\ now >= cbConfig.cooldownPeriod

\* C5: as long as every operation settled on a circuit since it was created
\* failed with a NON_RETRYABLE error, getState of the origin is CLOSED.
C5_NonRetryableKeepsClosed ==
    \A url \in callerUrls :
      (obs[getDomain(url)].clean /\ circuits[getDomain(url)] # NoCircuit)
        => /\ getState(url) = CLOSED
           /\ circuits[getDomain(url)].failures = 0

\* C5 witness: four operations in a row failed with a NON_RETRYABLE error,
\* more than any failureThreshold of the model.
C5_Witness ==
    /\ obs["a.test"].clean
    /\ fnCalls = 4
    /\ inflight = EmptyBag
    /\ lastEvent = "CLIENT_ERROR_4XX"
    /\ getState("https://a.test/p1") = CLOSED

\* The step is a call for `url`: execute, the settling of an operation admitted
\* for its domain, getState or reset(url).
CallFor(url) ==
    \/ Execute(url)
    \/ \E call \in BagToSet(inflight), outcome \in Outcomes :
         call.domain = hostname(url) /\ Settle(call, outcome)
    \/ GetState(url)
    \/ Reset(url)

\* C6: a call for a URL of one hostname leaves the circuit record of every
\* other hostname as it was.
C6_OriginIsolation ==
    [][\A url \in callerUrls :
         CallFor(url) =>
           \A d \in Domains \ {hostname(url)} : circuits'[d] = circuits[d]]_vars

\* C6 witness: the circuit of a.test is OPEN, calls for a.test are rejected,
\* and the circuit of b.test is CLOSED with an operation in flight.
C6_Witness ==
    /\ InState("a.test", OPEN)
    /\ InState("b.test", CLOSED)
    /\ lastEvent = "CIRCUIT_BREAKER_OPEN"
    /\ \E call \in BagToSet(inflight) : call.domain = "b.test" /\ ~call.detached

\* C7: while a circuit is HALF_OPEN at most halfOpenMaxAttempts operations
\* have been invoked since it entered HALF_OPEN, and an execute call arriving
\* when that many have been invoked is rejected without invoking its
\* operation and without changing the probe counter.
C7_HalfOpenProbeLimit ==
    [][\A url \in callerUrls :
         LET d == getDomain(url)
         IN  /\ InState(d, HALF_OPEN)'
                 => obs'[d].probes <= cbConfig.halfOpenMaxAttempts
             /\ (/\ InState(d, HALF_OPEN)
                  /\ obs[d].probes >= cbConfig.halfOpenMaxAttempts
                  /\ Execute(url))
                 => /\ RejectedUninvoked
                    /\ circuits'[d].halfOpenAttempts = circuits[d].halfOpenAttempts]_vars

\* C7 witness: halfOpenMaxAttempts = 2 probes were invoked in this HALF_OPEN
\* window and a further execute call has just been rejected.
C7_Witness ==
    /\ cbConfig.halfOpenMaxAttempts = 2
    /\ InState("a.test", HALF_OPEN)
    /\ obs["a.test"].probes = 2
    /\ lastEvent = "CIRCUIT_BREAKER_OPEN"

(***************************************************************************)
(* Properties of retryWithBackoff                                          *)
(***************************************************************************)
\* Invocation `i` of fn throws a FetchError of type `type`.
ThrowsTyped(i, type) ==
    /\ ~script[i].ok
    /\ script[i].error.isFetchError
    /\ script[i].error.type = type

\* k of C8: the index of the first invocation of fn that resolves; one past
\* the script, which is more than any maxRetries + 1, when none does.
FirstSuccess ==
    LET S == {i \in 1..Len(script) : script[i].ok}
    IN  IF S = {} THEN Len(script) + 1
        ELSE CHOOSE i \in S : \A j \in S : i <= j

ExpectedCalls == Min(FirstSuccess, retryConfig.maxRetries + 1)

\* Every invocation made before the first success fails with a RETRYABLE
\* FetchError.
RetryableUntilSuccess ==
    \A j \in 1..Min(FirstSuccess - 1, retryConfig.maxRetries + 1) : ThrowsTyped(j, RETRYABLE)

\* C8: when every failure before the first success is RETRYABLE, fn is never
\* invoked more than min(k, maxRetries + 1) times, it has been invoked
\* exactly that often when retryWithBackoff settles, and a success within
\* the attempts makes retryWithBackoff return the value of invocation k.
C8_AttemptCount ==
    RetryableUntilSuccess =>
      /\ rCalls <= ExpectedCalls
      /\ rpc = "done"
          => /\ rCalls = ExpectedCalls
             /\ FirstSuccess <= retryConfig.maxRetries + 1
                 => rResult = Returned(FirstSuccess)

\* C8 witness: two RETRYABLE failures, then the third invocation resolves and
\* its value is returned.
C8_Witness ==
    /\ rpc = "done"
    /\ RetryableUntilSuccess
    /\ FirstSuccess = 3
    /\ rCalls = 3
    /\ rResult = Returned(3)

\* retryWithBackoff has caught what invocation `n` of fn threw.
Handled(n) == rCalls > n \/ (rCalls = n /\ rpc # "await")

\* C9: once invocation n of fn has thrown a NON_RETRYABLE FetchError,
\* retryWithBackoff has rejected with that very error, fn has been invoked n
\* times and no more, and sleep and onRetry have been called only for the
\* n - 1 failures before it.
C9_NonRetryableRethrown ==
    \A n \in 1..Len(script) :
      (Handled(n) /\ ThrowsTyped(n, NON_RETRYABLE))
        => /\ rpc = "done"
           /\ rCalls = n
           /\ rResult = Rejected([error |-> script[n].error, from |-> n, same |-> TRUE])
           /\ sleeps = n - 1
           /\ onRetryCalls = n - 1

\* C9 witness: the second invocation threw a NON_RETRYABLE error after one
\* retried failure, and retryWithBackoff rejected with it.
C9_Witness ==
    /\ rpc = "done"
    /\ rCalls = 2
    /\ ThrowsTyped(2, NON_RETRYABLE)
    /\ retryConfig.maxRetries = 2
    /\ sleeps = 1
    /\ rResult.status = "rejected"

\* All maxRetries + 1 invocations of fn throw a RETRYABLE FetchError.
AllAttemptsFail ==
    \A j \in 1..(retryConfig.maxRetries + 1) : ThrowsTyped(j, RETRYABLE)

\* retryWithBackoff rejected with the error of invocation maxRetries + 1, after
\* maxRetries sleeps and onRetry calls, the last onRetry reporting the failure
\* before the last.
ExhaustedWithLastError ==
    LET last == retryConfig.maxRetries + 1
    IN  /\ rCalls = last
        /\ rResult = Rejected([error |-> script[last].error, from |-> last, same |-> TRUE])
        /\ sleeps = retryConfig.maxRetries
        /\ onRetryCalls = retryConfig.maxRetries
        /\ lastOnRetry.error.from = retryConfig.maxRetries

\* C10: when all maxRetries + 1 attempts fail with RETRYABLE errors,
\* retryWithBackoff rejects with the error of the last attempt, having slept
\* and called onRetry maxRetries times, none of them after the last attempt;
\* and every call of retryWithBackoff settles.
C10_ExhaustionRethrowsLast ==
    /\ []((rpc = "done" /\ AllAttemptsFail) => ExhaustedWithLastError)
    /\ <>(rpc = "done")

\* C10 witness: maxRetries = 2, three attempts failed, the call rejected.
C10_Witness ==
    /\ rpc = "done"
    /\ AllAttemptsFail
    /\ retryConfig.maxRetries = 2
    /\ rCalls = 3
    /\ rResult.status = "rejected"
    /\ rResult.thrown.from = 3

(***************************************************************************)
(* Properties of the retry delay                                           *)
(***************************************************************************)
\* retryWithBackoff is in `await sleep(delay)` after attempt `attempt` failed,
\* and onRetry was given the delay it sleeps.
SleepingAfterAttempt ==
    /\ rpc = "sleep"
    /\ lastOnRetry.attempt = attempt + 1
    /\ lastOnRetry.delay = delay

\* initialDelay * 2^attempt, and the same capped at maxDelay.
ExponentialDelay == retryConfig.initialDelay * Pow2(attempt)
CappedDelay == Min(ExponentialDelay, retryConfig.maxDelay)

RunningTasks == {t \in Tasks : taskState[t] = "running"}

\* The operations waiting in the queue.
QueuedTasks == {t \in Tasks : taskState[t] = "queued"}

\* The operations that resolved, rejected or timed out.
SettledTasks == {t \in Tasks : taskState[t] \in {"resolved", "rejected", "timed out"}}

\* C12: at every moment the number of operations the RequestManager is
\* running, which is what `pending` reports, is at most the configured
\* concurrency, however many operations were submitted and in whatever
\* order they settle.
C12_ConcurrencyBound ==
    /\ Cardinality(RunningTasks) <= rmConfig.concurrency
    /\ pending = Cardinality(RunningTasks)

\* C12 witness: concurrency = 2 and three operations were submitted at once:
\* two run and the third waits for a slot, with no rate window holding it.
C12_Witness ==
    /\ rmConfig.concurrency = 2
    /\ rmConfig.intervalCap = 0
    /\ ~isPaused
    /\ RunningTasks = {1, 2}
    /\ taskState[3] = "queued"
    /\ pending = 2
    /\ size = 1

\* No operation starts in a step that begins and ends with the callers'
\* latest pause() not yet followed by start().
NoStartWhilePaused ==
    (rmCaller.paused /\ rmCaller'.paused)
      => {t \in Tasks : taskState'[t] = "running"} \subseteq RunningTasks

\* pause() leaves the running operations running and the queued ones queued.
PauseKeepsTasks ==
    rmCaller'.last = "pause" => taskState' = taskState

\* C13: after pause() no queued or newly submitted operation is started,
\* while every running operation still settles; and a queued operation of a
\* queue that is not paused is eventually started (unless the queue is paused
\* again or cleared first) and, once started, settles.
C13_PauseAndStart ==
    /\ [][NoStartWhilePaused /\ PauseKeepsTasks]_vars
    /\ \A t \in Tasks :
         /\ (taskState[t] = "running") ~> (t \in SettledTasks)
         /\ (taskState[t] = "queued" /\ ~rmCaller.paused)
              ~> (taskState[t] = "running" \/ t \in SettledTasks
                    \/ rmCaller.paused \/ taskState[t] = "dropped")

\* C13 witness: with two slots free, two operations were submitted after
\* pause() and none was started; the operation that was running when pause()
\* was called has settled meanwhile.
C13_Witness ==
    /\ rmCaller.paused
    /\ rmConfig.concurrency = 2
    /\ taskState[1] = "resolved"
    /\ QueuedTasks = {2, 3}
    /\ pending = 0

\* The step is a clear(): nothing is queued after it, the operations that
\* were queued are dropped and every other operation is where it was.
ClearDropsQueued ==
    rmCaller'.last = "clear"
      => /\ size' = 0
         /\ pending' = pending
         /\ \A t \in Tasks :
              taskState'[t] = IF t \in QueuedTasks THEN "dropped" ELSE taskState[t]

\* C14: clear() removes exactly the queued, not yet started operations: size
\* becomes 0 and a dropped operation is never run, while the operations
\* already running stay running and settle as they would have.
C14_ClearDropsQueuedOnly ==
    [][/\ ClearDropsQueued
       /\ \A t \in Tasks : taskState[t] = "dropped" => taskState'[t] = "dropped"
       /\ \A t \in Tasks : taskState[t] = "running"
            => taskState'[t] \in {"running", "resolved", "rejected", "timed out"}]_vars

\* C14 witness: concurrency = 1; clear() was just called while operation 1
\* was running and operations 2 and 3 were queued behind it.
C14_Witness ==
    /\ rmCaller.last = "clear"
    /\ rmConfig.concurrency = 1
    /\ taskState[1] = "running"
    /\ taskState[2] = "dropped"
    /\ taskState[3] = "dropped"
    /\ size = 0
    /\ pending = 1

(***************************************************************************)
(* Properties of the error classification                                  *)
(***************************************************************************)
\* The indicators of each class of failure in a raw error, whatever their
\* letter case.
HasCancellation(e) == e.name = "AbortError" \/ "aborted" \in e.message
HasTimeout(e) == e.name = "TimeoutError" \/ e.message \cap {"Timeout", "timed out"} # {}
HasDns(e) == e.message \cap {"ENOTFOUND", "getaddrinfo", "DNS"} # {}
HasConnection(e) ==
    e.message \cap {"ECONNREFUSED", "ECONNRESET", "EPIPE", "network", "socket"} # {}

\* C15: classifyError of a raw error follows the precedence cancellation >
\* timeout > DNS > connection > default: ABORT_ERROR (non-retryable) if a
\* cancellation indicator is present, else NETWORK_TIMEOUT (retryable) if a
\* timeout indicator is, else DNS_FAILURE (non-retryable), else
\* CONNECTION_ERROR (retryable), else FETCH_ERROR (retryable); the raw error
\* is kept as the cause.
C15_ClassifyPrecedence ==
    producedBy = "classifyError" =>
      /\ fetchErr.cause = errArg
      /\ <<fetchErr.code, fetchErr.type>> =
           IF HasCancellation(errArg) THEN <<"ABORT_ERROR", NON_RETRYABLE>>
           ELSE IF HasTimeout(errArg) THEN <<"NETWORK_TIMEOUT", RETRYABLE>>
           ELSE IF HasDns(errArg) THEN <<"DNS_FAILURE", NON_RETRYABLE>>
           ELSE IF HasConnection(errArg) THEN <<"CONNECTION_ERROR", RETRYABLE>>
           ELSE <<"FETCH_ERROR", RETRYABLE>>

\* C15 witness: a raw error carrying indicators of all four classes was
\* classified, as a cancellation.
C15_Witness ==
    /\ producedBy = "classifyError"
    /\ errArg.name = "TimeoutError"
    /\ errArg.message = {"aborted", "DNS", "ECONNRESET"}
    /\ fetchErr.code = "ABORT_ERROR"

\* C16: createHttpError maps a status s in [400, 500) to CLIENT_ERROR_4XX
\* non-retryable, s in [500, 600) to SERVER_ERROR_5XX retryable and any other
\* s to a generic (FETCH_ERROR) non-retryable error, and the error carries
\* statusCode = s.
C16_HttpErrorMapping ==
    producedBy = "createHttpError" =>
      LET s == errArg.statusCode
      IN  /\ fetchErr.statusCode = Status(s)
          /\ (400 <= s /\ s < 500)
               => fetchErr.code = "CLIENT_ERROR_4XX" /\ fetchErr.type = NON_RETRYABLE
          /\ (500 <= s /\ s < 600)
               => fetchErr.code = "SERVER_ERROR_5XX" /\ fetchErr.type = RETRYABLE
          /\ (s < 400 \/ s >= 600)
               => fetchErr.code = "FETCH_ERROR" /\ fetchErr.type = NON_RETRYABLE

\* C16 witness: status 500, the first of the server range, was mapped.
C16_Witness ==
    /\ producedBy = "createHttpError"
    /\ errArg.statusCode = 500
    /\ fetchErr.code = "SERVER_ERROR_5XX"
    /\ fetchErr.statusCode = Status(500)

\* The kinds that are retryable.
RetryableCodes == {"NETWORK_TIMEOUT", "CONNECTION_ERROR", "SERVER_ERROR_5XX", "FETCH_ERROR"}

\* C17: an error produced by classifyError, by createHttpError or by the
\* catch of CircuitBreaker.execute and retryWithBackoff is retryable exactly
\* when its kind is NETWORK_TIMEOUT, CONNECTION_ERROR, SERVER_ERROR_5XX or
\* FETCH_ERROR, so that two errors of one kind never differ in retryability.
C17_RetryableByKind ==
    producedBy \in {"classifyError", "createHttpError", "catch"} =>
      (fetchErr.type = RETRYABLE <=> fetchErr.code \in RetryableCodes)

\* Text that comes from the failure itself: fragments of raw messages, the
\* url, the status text, messages given to `new FetchError`.
RawText ==
    MessageFragments \cup {"https://a.test/p1", "Status Text", "Test error",
                           "/srv/app/secret.ts: internal"}

\* FetchErrors of the kind and HTTP status of `error` with other messages
\* and causes.
SameKindAndStatus(error) ==
    {[error EXCEPT !.message = m, !.cause = c] :
       m \in {<<"Test error">>, <<"Failed for ", "https://b.test/">>, error.message},
       c \in {NoCause, [isFetchError |-> FALSE, name |-> "Error", message |-> {"socket"}],
              error.cause}}

\* C18: the user message of an error is the one of every error of the same
\* kind and HTTP status, whatever their messages, causes and urls, and no
\* part of it is text of the failure.
C18_UserMessageByKindAndStatus ==
    userMsg # <<>> =>
      /\ \A other \in SameKindAndStatus(fetchErr) : toUserMessage(other) = userMsg
      /\ \A i \in 1..Len(userMsg) : userMsg[i] \notin RawText

\* C18 witness: a raw error with no indicator was classified for a url, its
\* FetchError's own message names the url, and the user message was made.
C18_Witness ==
    /\ producedBy = "classifyError"
    /\ fetchErr.code = "FETCH_ERROR"
    /\ fetchErr.message = <<"Unexpected error", " fetching ", "https://a.test/p1">>
    /\ errArg.message = {"fetch failed"}
    /\ userMsg = <<"An unexpected error occurred while fetching the URL.">>

(***************************************************************************)
(* Properties of streamFetch                                               *)
(***************************************************************************)
\* C19: streamFetch goes through the scheduler, then the circuit breaker, then
\* retry: while the circuit of the url's origin is OPEN and its cooldown has
\* not elapsed, streamFetch makes no transport call and its caller sees
\* nothing but a rejection with CIRCUIT_BREAKER_OPEN.
C19_OpenCircuitShortCircuits ==
    OpenInCooldown(getDomain(sfOptions.url)) =>
        /\ transport.calls = 0
        /\ sfSeen.outcome \in {"pending", "CIRCUIT_BREAKER_OPEN"}

\* C20: once the timeout has elapsed or the caller's signal has fired while
\* the transport call was in flight or a body read was pending, the call in
\* flight can only be rejected, and the pending read can only end the body
\* with a failure: no further chunk is handed to the consumer and the body
\* does not end normally.
C20_AbortReachesPendingCall ==
    [][/\ (sfSeen.fired /\ sf.pc = "fetching") =>
              sf'.pc \in {"fetching", "rejected"}
       /\ (sfSeen.fired /\ sf.pc = "reading") =>
              /\ sf'.pc \in {"reading", "ended"}
              /\ sfSeen'.yielded = sfSeen.yielded
              /\ sfSeen'.body # "done"]_vars

\* C21: once the caller's signal has fired after chunk 1 was yielded, before
\* the next read starts or while it is pending, no chunk beyond chunk 1 is
\* yielded and the body does not end normally: unless its consumer leaves, it
\* can only end with an error.  (A body whose end was already read when the
\* signal fired, chunk 1 being the decoder's residue, is left aside.)
C21_NoChunkAfterCancel ==
    [][(sfSeen.firedAfter = 1 /\ sf.pc # "flushed") =>
           /\ sfSeen'.yielded = sfSeen.yielded
           /\ sfSeen'.body = "done" => sfSeen.body = "done"]_vars

\* The body sequence has been started by its consumer.
BodyStarted == sf.pc \in {"reading", "yielded", "flushed", "ended"}

\* C22: the reader of a started body sequence is released exactly once when
\* the sequence ends, however it ends, and is neither released before nor
\* released again.
C22_ReaderReleasedOnce ==
    /\ reader.releases <= 1
    /\ BodyStarted =>
          /\ (sf.pc = "ended") = (reader.releases = 1)
          /\ (sf.pc = "ended") = ~reader.locked

\* The body was cut short by the caller's signal after one chunk, and the
\* reader was released.
C22_Witness ==
    /\ sf.pc = "ended"
    /\ sfSeen.body = "Request aborted"
    /\ sfSeen.yielded = 1
    /\ reader = [locked |-> FALSE, cancels |-> 1, releases |-> 1]

(***************************************************************************)
(* Properties of htmlToMarkdownStream                                      *)
(***************************************************************************)
\* What the consumer was given, concatenated.
MarkdownOutput == Flatten(mdOut.chunks)

\* The stream ran to its end with the signal never aborted.
CompletedUndisturbed == mdOut.status = "done" /\ ~mdIn.aborted

\* C23: however the source cuts the document into chunks, the concatenated
\* output of htmlToMarkdownStream equals the output for the document fed as
\* one chunk.
C23_ChunkBoundaryInvariance ==
    CompletedUndisturbed =>
        MarkdownOutput = htmlToMarkdownString(Document(mdIn.doc), mdIn.chunkSize)

\* "# Title\n\nHello [world](https://x)"
ScenarioOutput ==
    <<"#", " ", "T", "i", "t", "l", "e", "\n", "\n",
      "H", "e", "l", "l", "o", " ", "[", "w", "o", "r", "l", "d", "]", "(">>
    \o HrefX \o <<")">>

\* C24: <h1>Title</h1><p>Hello <a href="https://x">world</a></p> fed in pieces
\* of 3 characters gives "# Title\n\nHello [world](https://x)".
C24_ScenarioOutput ==
    (/\ CompletedUndisturbed
     /\ Document(mdIn.doc) = ScenarioDocument
     /\ mdIn.piece = 3
     /\ mdIn.chunkSize = DefaultChunkSize) => MarkdownOutput = ScenarioOutput

\* C25: a stream whose signal became active before it had finished does not
\* complete: it ends with an error, and htmlToMarkdownString returns no result.
C25_AbortedNeverCompletes ==
    mdIn.aborted => mdOut.status # "done"

(***************************************************************************)
(* Properties of processURLStream                                          *)
(***************************************************************************)
\* C26: once the caller's signal has aborted while processURLStream was
\* fetching or converting, no fetch of the buffered path is started for the
\* url and processURLStream does not return a result: it can only reject.
C26_AbortRejectsWithoutFallback ==
    [][sfSeen.firedAfter # -1 =>
           /\ pu'.bufferedCalls = pu.bufferedCalls
           /\ pu'.pc # "returned"]_vars

\* The operation of `call` throws `error` in this step, and `call` is the
\* execute call that last invoked its operation, with no other call of any
\* origin in flight and nothing but the clock changed since it was admitted.
FailsAlone(call, error) ==
    /\ ~call.detached
    /\ inflight = SetToBag({call})
    /\ obs[call.domain].found # NoCircuit
    /\ Settle(call, Threw(error))

NonRetryableErrors == {o.error : o \in {x \in Outcomes : ~x.ok /\ wrapError(x.error).type = NON_RETRYABLE}}

\* C27 as claimed: an execute call whose operation fails with a
\* NON_RETRYABLE error leaves the circuit record of the origin exactly as the
\* call found it (state, failures, halfOpenAttempts, successCount and
\* lastFailureTime), whatever the state of the circuit.
C27_NonRetryableExecuteLeavesRecord ==
    [][\A call \in BagToSet(inflight), error \in NonRetryableErrors :
         FailsAlone(call, error) => circuits'[call.domain] = obs[call.domain].found]_vars

\* C27 amended: the handling of a NON_RETRYABLE failure changes no field of
\* the circuit record in any state; the execute call as a whole leaves the
\* record as it found it when it found it CLOSED, leaves it with
\* halfOpenAttempts one higher when it found it HALF_OPEN, and leaves it
\* HALF_OPEN with halfOpenAttempts = 1 and successCount = 0 when it found it
\* OPEN with the cooldown over.
C27_NonRetryableFailureLeavesRecord ==
    [][\A call \in BagToSet(inflight), error \in NonRetryableErrors :
         LET d == call.domain
             found == obs[d].found
         IN  /\ (~call.detached /\ Settle(call, Threw(error)))
                 => circuits'[d] = circuits[d]
             /\ FailsAlone(call, error)
                 => /\ found.state = CLOSED => circuits'[d] = found
                    /\ found.state = HALF_OPEN
                        => circuits'[d] = [found EXCEPT !.halfOpenAttempts = @ + 1]
                    /\ found.state = OPEN
                        => circuits'[d] = [found EXCEPT !.state = HALF_OPEN,
                                                        !.halfOpenAttempts = 1,
                                                        !.successCount = 0]]_vars

\* C27 witness: the only probe of a HALF_OPEN window, admitted by the call
\* that found the circuit OPEN, has just failed with a NON_RETRYABLE error;
\* the circuit is HALF_OPEN with that probe counted.
C27_Witness ==
    /\ InState("a.test", HALF_OPEN)
    /\ lastEvent = "CLIENT_ERROR_4XX"
    /\ inflight = EmptyBag
    /\ obs["a.test"].probes = 1
    /\ circuits["a.test"].halfOpenAttempts = 1
    /\ circuits["a.test"].successCount = 0

\* The circuit of `d` changes from CLOSED to OPEN in this step.
Opens(d) == InState(d, CLOSED) /\ InState(d, OPEN)'

\* C28 as claimed: a circuit moves CLOSED->OPEN only when the operations
\* that failed with a retryable error since the last success on the origin
\* number at least failureThreshold; failures separated by a success never
\* add up.
C28_OpensOnlyAfterConsecutiveFailures ==
    [][\A d \in Domains : Opens(d) => obs'[d].sinceOk >= cbConfig.failureThreshold]_vars

\* C28 amended: a circuit moves CLOSED->OPEN only when an operation fails
\* with a retryable error and the retryable failures settled while it was
\* CLOSED, less one for each success (never below zero), then number at least
\* failureThreshold: a success takes back one failure, not all of them.
C28_OpensOnlyAtNetThreshold ==
    [][\A d \in Domains :
         Opens(d) => /\ lastEvent' \in {"SERVER_ERROR_5XX", "FETCH_ERROR"}
                     /\ obs'[d].net = obs[d].net + 1
                     /\ obs'[d].net >= cbConfig.failureThreshold]_vars

\* C28 witness: with failureThreshold = 3 the circuit has just opened on a
\* retryable failure although only two operations failed since the last
\* success.
C28_Witness ==
    /\ cbConfig.failureThreshold = 3
    /\ InState("a.test", OPEN)
    /\ lastEvent = "SERVER_ERROR_5XX"
    /\ obs["a.test"].sinceOk = 2
    /\ obs["a.test"].net = 3
    /\ obs["a.test"].openedAt = now
    /\ fnCalls = 5

\* C29: when an operation resolves while its circuit is CLOSED, the failure
\* counter goes down by exactly one, or stays 0 when it is 0, and no other
\* field of the record changes; the failure counter of every circuit is at
\* least 0 in every reachable state.
C29_ClosedSuccessDecaysByOne ==
    [][/\ \A call \in BagToSet(inflight) :
            (~call.detached /\ InState(call.domain, CLOSED) /\ Settle(call, Resolved))
              => LET pre == circuits[call.domain]
                 IN  circuits'[call.domain] =
                       [pre EXCEPT !.failures = IF pre.failures = 0 THEN 0
                                                ELSE pre.failures - 1]
       /\ \A d \in Domains : circuits'[d] # NoCircuit => circuits'[d].failures >= 0]_vars

\* C29 witness: with failureThreshold = 3, two operations failed with a
\* retryable error and a third has just resolved: the circuit is CLOSED with
\* its failure counter down from 2 to 1.
C29_Witness ==
    /\ cbConfig.failureThreshold = 3
    /\ InState("a.test", CLOSED)
    /\ lastEvent = "ok"
    /\ fnCalls = 3
    /\ inflight = EmptyBag
    /\ obs["a.test"].net = 1
    /\ circuits["a.test"].failures = 1

\* The changes of state a circuit may make.
StateEdges ==
    {<<CLOSED, OPEN>>, <<OPEN, HALF_OPEN>>, <<HALF_OPEN, CLOSED>>, <<HALF_OPEN, OPEN>>}

\* C30: in every interleaving of the execute calls on an origin, a step that
\* changes the state of its circuit takes it CLOSED->OPEN, OPEN->HALF_OPEN,
\* HALF_OPEN->CLOSED or HALF_OPEN->OPEN (dropping the record by reset aside);
\* and every operation failing with a retryable error is handled on its own:
\* it adds one to the failure counter and leaves the circuit OPEN exactly
\* when it found it HALF_OPEN or OPEN or brought the counter to failureThreshold.
C30_TransitionsFollowEdges ==
    [][/\ \A d \in Domains :
            (/\ circuits[d] # NoCircuit
             /\ circuits'[d] # NoCircuit
             /\ circuits'[d].state # circuits[d].state)
              => <<circuits[d].state, circuits'[d].state>> \in StateEdges
       /\ \A call \in BagToSet(inflight), outcome \in Outcomes :
            (/\ ~call.detached
             /\ ~outcome.ok
             /\ wrapError(outcome.error).type = RETRYABLE
             /\ Settle(call, outcome))
              => LET pre == circuits[call.domain]
                     post == circuits'[call.domain]
                 IN  /\ post.failures = pre.failures + 1
                     /\ (post.state = OPEN) =
                          \/ pre.state \in {HALF_OPEN, OPEN}
                          \/ post.failures >= cbConfig.failureThreshold
                     /\ post.state # OPEN => post.state = pre.state]_vars

\* C30 witness: with failureThreshold = 1 two operations were in flight at
\* once and both failed with a retryable error: the first opened the circuit
\* and the second, handled on its own, found it OPEN and counted itself.
C30_Witness ==
    /\ cbConfig.failureThreshold = 1
    /\ InState("a.test", OPEN)
    /\ fnCalls = 2
    /\ inflight = EmptyBag
    /\ obs["a.test"].sinceOk = 2
    /\ obs["a.test"].net = 1
    /\ circuits["a.test"].failures = 2

\* A skip region, an anchor or a formatting span (strong/b, em/i, code, pre)
\* is open in formatter `m`.
SpanOpen(m) ==
    \/ m.skipDepth > 0
    \/ \E i \in 1..Len(m.stack) :
         \/ m.stack[i].tag = "a"
         \/ m.stack[i].formattingSuffix # <<>>

\* Every chunk that the callbacks for `events` put on the output queue is put
\* there while no skip region, anchor or formatting span is open.
RECURSIVE FlushesOutsideSpans(_, _, _)
FlushesOutsideSpans(m, events, chunkSize) ==
    \/ events = <<>>
    \/ LET after == parserWrite(m, <<Head(events)>>, chunkSize)
       IN  /\ Len(after.outputQueue) > Len(m.outputQueue) => ~SpanOpen(after)
           /\ FlushesOutsideSpans(after, Tail(events), chunkSize)

\* C31: every chunk htmlToMarkdownStream emits before the end of its input
\* is emitted while no skip region, no anchor and no formatting span
\* (strong/b, em/i, code, pre) is open.
C31_NoFlushInsideSpan ==
    [][mdIn'.done # mdIn.done =>
         FlushesOutsideSpans(md,
                             EventsFrom(ParserStack(<<>>, SubSeq(Document(mdIn.doc),
                                                                 1, mdIn.done)),
                                        SubSeq(Document(mdIn.doc), mdIn.done + 1,
                                               mdIn'.done)),
                             mdIn.chunkSize)]_vars

\* The items of the document written so far, and the elements the parser
\* holds open after them.
ItemsWritten == SubSeq(Document(mdIn.doc), 1, mdIn.done)

OpenElements == ParserStack(<<>>, ItemsWritten)

\* The frame stack of formatter `m` holds one frame for each element of
\* `open`, in order; its skip depth is the number of skip frames and its
\* list-context stack has one entry for each ul or ol frame that is not
\* skipped.
FramesMirror(m, open) ==
    /\ Len(m.stack) = Len(open)
    /\ \A i \in 1..Len(open) : m.stack[i].tag = open[i]
    /\ m.skipDepth = Cardinality({i \in 1..Len(m.stack) : m.stack[i].skip})
    /\ Len(m.listStack) =
         Cardinality({i \in 1..Len(m.stack) :
                        m.stack[i].tag \in {"ul", "ol"} /\ ~m.stack[i].skip})

\* The item written last is a close tag naming no element that was open.
UnmatchedCloseTagWritten ==
    /\ mdIn.done > 0
    /\ Document(mdIn.doc)[mdIn.done].kind = "close"
    /\ LastIndexOf(ParserStack(<<>>, SubSeq(Document(mdIn.doc), 1, mdIn.done - 1)),
                   Document(mdIn.doc)[mdIn.done].name) = 0

C33_CatchAgreesWithClassifier ==
    producedBy = "catch" => fetchErr.type = classifyError(errArg, urlArg).type

\* The circuit of `d` is HALF_OPEN with every probe slot used and no
\* operation of the origin in flight that could still change it: every
\* execute call is rejected from here on, and only reset ends it.
HalfOpenExhausted(d) ==
    /\ InState(d, HALF_OPEN)
    /\ circuits[d].halfOpenAttempts >= cbConfig.halfOpenMaxAttempts
    /\ ~\E call \in BagToSet(inflight) : call.domain = d /\ ~call.detached

\* C34: no reachable state leaves a circuit HALF_OPEN with every future
\* execute call for the origin rejected: while a circuit is HALF_OPEN either
\* a probe slot is free or an admitted operation is still to complete, so
\* that arriving calls and completing operations take it out of HALF_OPEN.
C34_HalfOpenNeverExhausted ==
    \A d \in Domains : ~HalfOpenExhausted(d)

\* Of every circuit, successCount <= halfOpenAttempts.
SuccessCountWithinAttempts ==
    \A d \in Domains :
      circuits[d] # NoCircuit => circuits[d].successCount <= circuits[d].halfOpenAttempts

\* C35: in every reachable state successCount <= halfOpenAttempts, and an
\* operation admitted while the circuit was not HALF_OPEN that resolves
\* while it is HALF_OPEN is not counted as a probe success: it leaves
\* successCount as it is and the circuit HALF_OPEN.
C35_OnlyProbesCount ==
    [][/\ SuccessCountWithinAttempts'
       /\ \A call \in BagToSet(inflight) :
            (/\ ~call.probe
             /\ ~call.detached
             /\ InState(call.domain, HALF_OPEN)
             /\ Settle(call, Resolved))
              => /\ InState(call.domain, HALF_OPEN)'
                 /\ circuits'[call.domain].successCount
                      = circuits[call.domain].successCount]_vars

\* C36: a step that leaves a circuit OPEN leaves its cooldown start
\* (lastFailureTime) as it is: operations admitted before the circuit opened
\* that complete while it is OPEN neither restart nor extend the cooldown.
C36_OpenKeepsCooldownStart ==
    [][\A d \in Domains :
         (InState(d, OPEN) /\ InState(d, OPEN)')
           => circuits'[d].lastFailureTime = circuits[d].lastFailureTime]_vars

\* C38: when the signal given to streamFetch is already aborted at the
\* call, no transport call is made and streamFetch does not resolve: it is
\* pending or has failed with 'Request aborted'.
C38_PreAbortedMakesNoCall ==
    sfOptions.signal = "aborted"
      => /\ transport.calls = 0
         /\ sfSeen.outcome \in {"pending", "Request aborted"}

(***************************************************************************)
(* streamFetch calls over the RequestManager.  Each operation given to     *)
(* execute is the function streamFetch passes: it resolves with the        *)
(* response as soon as global.fetch has delivered it, and the body of the  *)
(* response is read afterwards, by the generator streamFetch returns.      *)
(***************************************************************************)

\* The generator of a resolved call finishes: the body is exhausted, the
\* consumer returns early or a read throws, and the finally clause cancels
\* and releases the reader.
BodyReleased(t) ==
    /\ taskState[t] = "resolved"
    /\ taskState' = [taskState EXCEPT ![t] = "ended"]
    /\ UNCHANGED <<rmConfig, queue, rmCaller, notRM>>

NextStreams ==
    \/ NextRM
    \/ \E t \in Tasks : BodyReleased(t)

SpecStreams == InitRM /\ [][NextStreams]_vars

\* The streamFetch requests in flight: the transport call has started and
\* the body has not ended or been released.
StreamsInFlight == {t \in Tasks : taskState[t] \in {"running", "resolved"}}

\* C37: the number of streamFetch requests in flight, from the start of the
\* transport call until the body has ended or been released, never exceeds
\* the concurrency of the scheduler.
C37_StreamsWithinConcurrency ==
    Cardinality(StreamsInFlight) <= rmConfig.concurrency

\* C39: the concatenated output of htmlToMarkdownStream does not depend on
\* chunkSize: for a document fed as one chunk, the output under any
\* chunkSize is the output under the default one, a flush in between
\* changing where the output is cut and nothing of what follows it.
C39_ChunkSizeInvariance ==
    (CompletedUndisturbed /\ mdIn.piece = -1)
      => MarkdownOutput = htmlToMarkdownString(Document(mdIn.doc), DefaultChunkSize)

(***************************************************************************)
(* Properties of extractStream                                             *)
(***************************************************************************)
\* The element was removed when it was opened, for its tag name or for its
\* attributes.
RemovedElement(el) ==
    tagToLowerCase(el.name) \in nodesToRemove \/ hiddenAttribs(el.attribs)

\* The open elements that were removed.
OpenRemoved == {i \in 1..Len(xs.open) : RemovedElement(xs.open[i])}

\* C40: while extractStream reads its source, inRemovableTag is the number
\* of removed elements that are open: it is 0 again once the outermost
\* removed element has closed, so that what follows a removed element is
\* emitted.
C40_CounterCountsOpenRemoved ==
    Extracting => xs.inRemovableTag = Cardinality(OpenRemoved)

====
